---------------------------- MODULE Spec2Model ----------------------------
(***************************************************************************)
(* Policy-compliance pipeline of weam-ai/t3.                               *)
(*                                                                         *)
(*  - the live checker (src/unnamed/part_001): fetch of the policy page,   *)
(*    extraction model call, the cachedPolicies field, checkCompliance;    *)
(*  - the static checker (src/unnamed/part_000): loadPolicyFile,           *)
(*    validateInput, checkPolicy, validateResponse;                        *)
(*  - the summarizer (src/backend/summarize-multimedia-gemini/index.js);   *)
(*  - the /summarize handler (src/backend/server.js);                      *)
(*  - the module functions of the live checker, which create a checker     *)
(*    per call (src/unnamed/part_001, lines 280-293);                      *)
(*  - the upload page (src/Frontend/src/components/FileUploadAnalyzer.jsx) *)
(*    in front of the /summarize handler.                                  *)
(*                                                                         *)
(* A text is a sequence of lexemes.  A lexeme is one character that the    *)
(* code's regular expressions or JSON.parse tell apart (a brace, a         *)
(* bracket, a quote, a backslash, a comma, a colon, a blank, a raw control *)
(* character), or a maximal run of other characters (a word or a number).  *)
(* A backslash is only ever followed by a one-character lexeme.            *)
(***************************************************************************)
EXTENDS Integers, Sequences, FiniteSets, TLC

VARIABLES
    \* The live checker (src/unnamed/part_001), one instance:
    cachedPolicies,  \* this.cachedPolicies
    calls,           \* the invocations made on it, each with its position
    extracted,       \* history: the values extractPoliciesWithClaude returned
    \* The static checker (src/unnamed/part_000), one instance:
    policyContent,   \* this.policyContent
    checks,          \* the invocations made on it, each with its position
    \* The /summarize handler (src/backend/server.js):
    requests,        \* the requests, each with its position and its response
    \* The summarizer called on its own (index.js), one instance:
    analyses,        \* the analyzeMultimedia invocations, each with its position
    \* The module functions of the live checker (part_001, lines 280-293):
    checkers,        \* the checker instances they create, each with its own cache
    \* The upload page (src/Frontend/src/components/FileUploadAnalyzer.jsx):
    page             \* the component's state and its request in flight

liveVars == <<cachedPolicies, calls, extracted>>
staticVars == <<policyContent, checks>>
serverVars == <<requests>>
summarizerVars == <<analyses>>
processVars == <<checkers>>
uiVars == <<page>>
vars == <<liveVars, staticVars, serverVars, summarizerVars, processVars, uiVars>>

(***************************************************************************)
(* JavaScript values                                                       *)
(***************************************************************************)
Undefined == [t |-> "undefined"]
JNull == [t |-> "null"]
JBool(b) == [t |-> "bool", b |-> b]
JNum(n) == [t |-> "num", n |-> n]
JStr(s) == [t |-> "str", s |-> s]
JArr(a) == [t |-> "arr", a |-> a]
JObj(o) == [t |-> "obj", o |-> o]
Member(k, v) == [k |-> k, v |-> v]

\* Raw characters in [\x00-\x1F]: newline, tab, carriage return.
ControlChars == {"NL", "TAB", "CR"}
\* What String.prototype.trim and JSON's grammar treat as blank.
Whitespace == {" ", "NL", "TAB", "CR"}
\* The run of 10,001 ordinary characters; every other lexeme stands for a
\* run far shorter than any limit of the code.
LongRun == "x10001"
LexLen(c) == IF c = LongRun THEN 10001 ELSE 1

RECURSIVE StrLength(_)
StrLength(s) == IF s = <<>> THEN 0 ELSE LexLen(Head(s)) + StrLength(Tail(s))

\* ToBoolean: what `!x` and `if (x)` test.
Truthy(v) ==
    CASE v.t = "undefined" -> FALSE
      [] v.t = "null" -> FALSE
      [] v.t = "bool" -> v.b
      [] v.t = "num" -> v.n # "0"
      [] v.t = "str" -> v.s # <<>>
      [] OTHER -> TRUE

\* obj[key] of a parsed object; undefined when the key is absent.
RECURSIVE GetMember(_, _)
GetMember(o, k) ==
    IF o = <<>> THEN Undefined
    ELSE IF Head(o).k = k THEN Head(o).v
    ELSE GetMember(Tail(o), k)

\* v.key as JavaScript evaluates it on a value that is neither null nor
\* undefined: an own property of an object, undefined on anything else.
Prop(v, k) == IF v.t = "obj" THEN GetMember(v.o, k) ELSE Undefined

\* JSON.parse keeps a repeated key at its first place with its last value.
RECURSIVE SetMember(_, _, _)
SetMember(o, k, v) ==
    IF o = <<>> THEN <<Member(k, v)>>
    ELSE IF Head(o).k = k THEN <<Member(k, v)>> \o Tail(o)
    ELSE <<Head(o)>> \o SetMember(Tail(o), k, v)

(***************************************************************************)
(* JSON.parse                                                              *)
(***************************************************************************)
ParseFail == [ok |-> FALSE, v |-> JNull, i |-> 0]
ParseOk(v, i) == [ok |-> TRUE, v |-> v, i |-> i]

NumberLexemes == {"0", "1", "42"}
Escapes == {"\"", "\\", "/", "n", "t", "r"}
Unescape(c) ==
    CASE c = "n" -> "NL"
      [] c = "t" -> "TAB"
      [] c = "r" -> "CR"
      [] OTHER -> c

RECURSIVE SkipWs(_, _)
SkipWs(s, i) == IF i <= Len(s) /\ s[i] \in Whitespace THEN SkipWs(s, i + 1) ELSE i

\* The characters of a string literal, from the one after its opening quote.
RECURSIVE ParseChars(_, _, _)
ParseChars(s, i, acc) ==
    IF i > Len(s) THEN ParseFail
    ELSE IF s[i] = "\"" THEN ParseOk(JStr(acc), i + 1)
    ELSE IF s[i] = "\\" THEN
        IF i + 1 <= Len(s) /\ s[i + 1] \in Escapes
        THEN ParseChars(s, i + 2, Append(acc, Unescape(s[i + 1])))
        ELSE ParseFail
    ELSE IF s[i] \in ControlChars THEN ParseFail
    ELSE ParseChars(s, i + 1, Append(acc, s[i]))

RECURSIVE ParseValue(_, _)
RECURSIVE ParseElements(_, _, _)
RECURSIVE ParseMembers(_, _, _)

\* The elements of an array after its first: i is at "," or "]".
ParseElements(s, i, acc) ==
    LET j == SkipWs(s, i) IN
    IF j > Len(s) THEN ParseFail
    ELSE IF s[j] = "]" THEN ParseOk(JArr(acc), j + 1)
    ELSE IF s[j] = "," THEN
        LET e == ParseValue(s, SkipWs(s, j + 1)) IN
        IF e.ok THEN ParseElements(s, e.i, Append(acc, e.v)) ELSE ParseFail
    ELSE ParseFail

\* One member "key": value at i, then "," or "}".
ParseMembers(s, i, acc) ==
    LET j == SkipWs(s, i) IN
    IF j > Len(s) \/ s[j] # "\"" THEN ParseFail
    ELSE
        LET key == ParseChars(s, j + 1, <<>>) IN
        IF ~key.ok THEN ParseFail
        ELSE
            LET c == SkipWs(s, key.i) IN
            IF c > Len(s) \/ s[c] # ":" THEN ParseFail
            ELSE
                LET val == ParseValue(s, SkipWs(s, c + 1)) IN
                IF ~val.ok THEN ParseFail
                ELSE
                    LET n == SkipWs(s, val.i)
                        acc2 == SetMember(acc, key.v.s, val.v)
                    IN
                    IF n > Len(s) THEN ParseFail
                    ELSE IF s[n] = "}" THEN ParseOk(JObj(acc2), n + 1)
                    ELSE IF s[n] = "," THEN ParseMembers(s, n + 1, acc2)
                    ELSE ParseFail

ParseValue(s, i) ==
    IF i > Len(s) THEN ParseFail
    ELSE IF s[i] = "{" THEN
        LET j == SkipWs(s, i + 1) IN
        IF j <= Len(s) /\ s[j] = "}" THEN ParseOk(JObj(<<>>), j + 1)
        ELSE ParseMembers(s, j, <<>>)
    ELSE IF s[i] = "[" THEN
        LET j == SkipWs(s, i + 1) IN
        IF j <= Len(s) /\ s[j] = "]" THEN ParseOk(JArr(<<>>), j + 1)
        ELSE
            LET e == ParseValue(s, j) IN
            IF e.ok THEN ParseElements(s, e.i, <<e.v>>) ELSE ParseFail
    ELSE IF s[i] = "\"" THEN ParseChars(s, i + 1, <<>>)
    ELSE IF s[i] = "true" THEN ParseOk(JBool(TRUE), i + 1)
    ELSE IF s[i] = "false" THEN ParseOk(JBool(FALSE), i + 1)
    ELSE IF s[i] = "null" THEN ParseOk(JNull, i + 1)
    ELSE IF s[i] \in NumberLexemes THEN ParseOk(JNum(s[i]), i + 1)
    ELSE ParseFail

\* JSON.parse(text): [ok, v]; ok = FALSE is the SyntaxError it throws.
JsonParse(s) ==
    LET r == ParseValue(s, SkipWs(s, 1)) IN
    IF r.ok /\ SkipWs(s, r.i) > Len(s)
    THEN [ok |-> TRUE, v |-> r.v]
    ELSE [ok |-> FALSE, v |-> JNull]

(***************************************************************************)
(* JSON.stringify (no indent), used to write the well-formed responses     *)
(***************************************************************************)
Escape(c) ==
    CASE c = "NL" -> <<"\\", "n">>
      [] c = "TAB" -> <<"\\", "t">>
      [] c = "CR" -> <<"\\", "r">>
      [] c = "\"" -> <<"\\", "\"">>
      [] c = "\\" -> <<"\\", "\\">>
      [] OTHER -> <<c>>

RECURSIVE QuoteChars(_)
QuoteChars(s) == IF s = <<>> THEN <<>> ELSE Escape(Head(s)) \o QuoteChars(Tail(s))
Quote(s) == <<"\"">> \o QuoteChars(s) \o <<"\"">>

RECURSIVE Stringify(_)
RECURSIVE StringifyElements(_)
RECURSIVE StringifyMembers(_)
StringifyElements(a) ==
    IF a = <<>> THEN <<>>
    ELSE Stringify(Head(a))
         \o (IF Len(a) > 1 THEN <<",">> ELSE <<>>)
         \o StringifyElements(Tail(a))
StringifyMembers(o) ==
    IF o = <<>> THEN <<>>
    ELSE Quote(Head(o).k) \o <<":">> \o Stringify(Head(o).v)
         \o (IF Len(o) > 1 THEN <<",">> ELSE <<>>)
         \o StringifyMembers(Tail(o))
Stringify(v) ==
    CASE v.t = "null" -> <<"null">>
      [] v.t = "bool" -> IF v.b THEN <<"true">> ELSE <<"false">>
      [] v.t = "num" -> <<v.n>>
      [] v.t = "str" -> Quote(v.s)
      [] v.t = "arr" -> <<"[">> \o StringifyElements(v.a) \o <<"]">>
      [] v.t = "obj" -> <<"{">> \o StringifyMembers(v.o) \o <<"}">>

(***************************************************************************)
(* String operations of the code                                           *)
(***************************************************************************)
RECURSIVE TrimStart(_)
TrimStart(s) == IF s # <<>> /\ Head(s) \in Whitespace THEN TrimStart(Tail(s)) ELSE s
RECURSIVE TrimEnd(_)
TrimEnd(s) ==
    IF s # <<>> /\ s[Len(s)] \in Whitespace THEN TrimEnd(SubSeq(s, 1, Len(s) - 1)) ELSE s
\* String.prototype.trim
Trim(s) == TrimEnd(TrimStart(s))

Positions(s, c) == {i \in 1..Len(s) : s[i] = c}
Min(S) == CHOOSE x \in S : \A y \in S : x <= y
Max(S) == CHOOSE x \in S : \A y \in S : x >= y

\* text.match(/<open>[\s\S]*<close>/): greedy, from the first opening
\* character to the last closing character after it; found = FALSE is null.
GreedyMatch(s, open, close) ==
    LET os == Positions(s, open)
        cs == Positions(s, close)
    IN
    IF os # {} /\ cs # {} /\ Max(cs) > Min(os)
    THEN [found |-> TRUE, text |-> SubSeq(s, Min(os), Max(cs))]
    ELSE [found |-> FALSE, text |-> <<>>]

(***************************************************************************)
(* Bounds and input sets                                                   *)
(***************************************************************************)
\* Invocations made on the one live checker instance.
NumCalls == 2
Calls == 1..NumCalls

Str(w) == JStr(<<w>>)
PolicyA ==
    JObj(<<Member(<<"category">>, Str("Prohibited")),
           Member(<<"name">>, Str("Weapons")),
           Member(<<"description">>, Str("NoWeapons"))>>)
PolicyB ==
    JObj(<<Member(<<"category">>, Str("Restricted")),
           Member(<<"name">>, Str("Alcohol")),
           Member(<<"description">>, Str("AgeGate"))>>)

\* What the policy page can hold: the children of <body>, in order.
Element(tag, text) == [tag |-> tag, text |-> text]
Htmls ==
    { <<Element("nav", <<"Menu">>), Element("main", <<"Ad", " ", " ", "rules", "NL">>)>>,
      <<Element("script", <<"var">>), Element("footer", <<"c">>)>> }

\* What the extraction model call can answer.
ExtractResponses ==
    { Stringify(JArr(<<PolicyA>>)),
      <<"Here", " ">> \o Stringify(JArr(<<PolicyB>>)) \o <<"NL", "Done">>,
      Stringify(JArr(<<JObj(<<Member(<<"name">>, JStr(<<"No", "NL", "weapons">>))>>)>>)),
      <<"null">>,
      <<"[", "]">>,
      <<"Sorry">> }

\* What the caller can pass as adSummary.
AdSummaries == { Str("Coffee"), JStr(<<" ">>), JStr(<<>>), Undefined }

Verdict(compliant, violated) ==
    JObj(<<Member(<<"compliant">>, compliant),
           Member(<<"violatedPolicies">>, JArr(violated)),
           Member(<<"details">>, JObj(<<Member(<<"riskLevel">>, Str("low"))>>))>>)
ViolatedPolicy ==
    JObj(<<Member(<<"category">>, Str("Prohibited")),
           Member(<<"name">>, Str("Weapons")),
           Member(<<"reason">>, Str("ShowsGun"))>>)

\* What the compliance model call of the live checker can answer.
ComplianceResponses ==
    { Stringify(Verdict(JBool(TRUE), <<>>)),
      <<"Result", ":", " ">> \o Stringify(Verdict(JBool(FALSE), <<ViolatedPolicy>>)),
      Stringify(JObj(<<Member(<<"violatedPolicies">>, JArr(<<>>))>>)),
      <<"42">>,
      <<"I", " ", "cannot", " ", "tell">> }

(***************************************************************************)
(* The live checker: src/unnamed/part_001                                  *)
(***************************************************************************)
RemovedTags == {"script", "style", "nav", "header", "footer"}

RECURSIVE BodyText(_)
BodyText(html) ==
    IF html = <<>> THEN <<>>
    ELSE (IF Head(html).tag \in RemovedTags THEN <<>> ELSE Head(html).text)
         \o BodyText(Tail(html))

\* text.replace(/\s+/g, ' ')
RECURSIVE CollapseWhitespace(_)
CollapseWhitespace(s) ==
    IF s = <<>> THEN <<>>
    ELSE IF Head(s) \in Whitespace
    THEN <<" ">> \o CollapseWhitespace(TrimStart(s))
    ELSE <<Head(s)>> \o CollapseWhitespace(Tail(s))

ExtractTextFromHtml(html) == Trim(CollapseWhitespace(BodyText(html)))

\* .replace(/[\x00-\x1F\x7F-\x9F]/g, '')
StripControl(s) == SelectSeq(s, LAMBDA c : c \notin ControlChars)

\* .replace(/\\<letter>/g, <raw>)
RECURSIVE ReplaceEscape(_, _, _)
ReplaceEscape(s, letter, raw) ==
    IF s = <<>> THEN <<>>
    ELSE IF Len(s) >= 2 /\ s[1] = "\\" /\ s[2] = letter
    THEN <<raw>> \o ReplaceEscape(SubSeq(s, 3, Len(s)), letter, raw)
    ELSE <<Head(s)>> \o ReplaceEscape(Tail(s), letter, raw)

CleanNoTrim(s) ==
    ReplaceEscape(ReplaceEscape(ReplaceEscape(StripControl(s), "n", "NL"), "t", "TAB"), "r", "CR")
CleanText(s) == Trim(CleanNoTrim(s))

Threw(msg) == [ok |-> FALSE, v |-> Str(msg)]
Returned(v) == [ok |-> TRUE, v |-> v]

\* An extraction that answers an un-parseable response with an empty set.
ExtractPoliciesWithClaudeDefaulting(responseText) ==
    LET cleanedText == CleanText(responseText)
        direct == JsonParse(cleanedText)
        jsonMatch == GreedyMatch(cleanedText, "[", "]")
        second == JsonParse(CleanNoTrim(jsonMatch.text))
    IN
    IF direct.ok THEN Returned(direct.v)
    ELSE IF jsonMatch.found /\ second.ok THEN Returned(second.v)
    ELSE Returned(JArr(<<>>))

\* extractPoliciesWithClaude from the model's answer on: what it returns
\* (ok) or the message of the Error it throws.
ExtractPoliciesWithClaude(responseText) ==
    LET cleanedText == CleanText(responseText)
        direct == JsonParse(cleanedText)
        jsonMatch == GreedyMatch(cleanedText, "[", "]")
        second == JsonParse(CleanNoTrim(jsonMatch.text))
    IN
    IF direct.ok THEN Returned(direct.v)
    ELSE IF jsonMatch.found
    THEN IF second.ok THEN Returned(second.v)
         ELSE Threw("Failed to extract policies with Claude: SyntaxError")
    ELSE Threw("Failed to extract policies with Claude: Failed to parse policies JSON")

\* checkCompliance from the model's answer on.
CheckComplianceParse(responseText) ==
    LET direct == JsonParse(responseText)
        jsonMatch == GreedyMatch(responseText, "{", "}")
        second == JsonParse(jsonMatch.text)
    IN
    IF direct.ok THEN Returned(direct.v)
    ELSE IF jsonMatch.found
    THEN IF second.ok THEN Returned(second.v)
         ELSE Threw("Failed to check compliance: SyntaxError")
    ELSE Threw("Failed to check compliance: Failed to parse compliance result JSON")

\* a || b
OrElse(a, b) == IF Truthy(a) THEN a ELSE b

ComplianceError(msg) ==
    JObj(<<Member(<<"compliant">>, JBool(FALSE)),
           Member(<<"violatedPolicies">>, JArr(<<>>)),
           Member(<<"details">>,
                  JObj(<<Member(<<"error">>, msg),
                         Member(<<"description">>, Str("An error occurred while checking compliance"))>>))>>)

\* A checkAdCompliance that hands on what checkCompliance returned.
CheckAdCompliancePassingThrough(outcome) ==
    IF ~outcome.ok THEN ComplianceError(outcome.v) ELSE outcome.v

\* A checkAdCompliance that takes a missing compliant field for true.
CheckAdComplianceDefaultingCompliant(outcome) ==
    IF ~outcome.ok THEN ComplianceError(outcome.v)
    ELSE IF outcome.v.t = "null"
    THEN ComplianceError(Str("Cannot read properties of null"))
    ELSE JObj(<<Member(<<"compliant">>, OrElse(Prop(outcome.v, <<"compliant">>), JBool(TRUE))),
                Member(<<"violatedPolicies">>, OrElse(Prop(outcome.v, <<"violatedPolicies">>), JArr(<<>>))),
                Member(<<"details">>, OrElse(Prop(outcome.v, <<"details">>), JObj(<<>>)))>>)

\* checkAdCompliance from the outcome of checkCompliance on.
CheckAdCompliance(outcome) ==
    IF ~outcome.ok THEN ComplianceError(outcome.v)
    ELSE IF outcome.v.t = "null"
    THEN ComplianceError(Str("Cannot read properties of null"))
    ELSE JObj(<<Member(<<"compliant">>, OrElse(Prop(outcome.v, <<"compliant">>), JBool(FALSE))),
                Member(<<"violatedPolicies">>, OrElse(Prop(outcome.v, <<"violatedPolicies">>), JArr(<<>>))),
                Member(<<"details">>, OrElse(Prop(outcome.v, <<"details">>), JObj(<<>>)))>>)

\* The guard of checkCompliance.
AdSummaryValid(adSummary) == Truthy(adSummary) /\ adSummary.t = "str"

\* The outcomes over the answers the model draws from, computed once.
ExtractOutcomes == [r \in ExtractResponses |-> ExtractPoliciesWithClaude(r)]
ComplianceResults ==
    [r \in ComplianceResponses |-> CheckAdCompliance(CheckComplianceParse(r))]

(***************************************************************************)
(* State of the live checker                                               *)
(***************************************************************************)
\* An invocation not yet made.  overlap, emptyAtStart and afterSuccess are
\* history: the invocations in progress during this one, whether the cache
\* was empty when it reached getPolicies, and whether a getPolicies call
\* had already returned by then.  fetches, extracts and evals count the
\* outbound calls it issued.  adSummary is the argument of
\* checkAdCompliance and content the textContent of getPolicies, each held
\* while the function that owns it runs; extractAnswer is the text the
\* extraction model call returned.
NewCall ==
    [pc |-> "new", kind |-> "none", adSummary |-> Undefined,
     overlap |-> {}, emptyAtStart |-> FALSE,
     afterSuccess |-> FALSE, fetches |-> 0, extracts |-> 0, evals |-> 0,
     content |-> <<>>,
     extractAnswered |-> FALSE, extractAnswer |-> <<>>,
     got |-> "none", policies |-> Undefined, answered |-> FALSE, answer |-> <<>>,
     result |-> Undefined]

\* The invocation is inside getPolicies, at one of its two awaits.
InProgress(c) == calls[c].pc \in {"fetching", "extracting"}
SomeReturned == \E d \in Calls : calls[d].got = "returned"

\* A failed extraction that stores what it has: an empty set.
CacheAfterExtractionStoringPartial(cache, outcome) ==
    IF outcome.ok THEN outcome.v ELSE JArr(<<>>)

\* Line 167: what a settled extraction leaves in this.cachedPolicies.
CacheAfterExtraction(cache, outcome) == IF outcome.ok THEN outcome.v ELSE cache

\* Line 161: the test that decides between the stored set and a fetch.
CacheHit(cache) == Truthy(cache)

\* What follows getPolicies in an invocation of the given kind once it has
\* returned: getPolicies itself is done, checkCompliance issues its model call.
AfterPolicies(call, policies) ==
    IF call.kind = "getPolicies"
    THEN [call EXCEPT !.pc = "done", !.got = "returned", !.policies = policies,
                      !.content = <<>>]
    ELSE [call EXCEPT !.pc = "evaluating", !.got = "returned", !.policies = policies,
                      !.content = <<>>, !.evals = @ + 1]

\* What follows a throw of getPolicies: it propagates out of getPolicies,
\* and checkAdCompliance turns it into its error result.
AfterThrow(call, msg) ==
    IF call.kind = "getPolicies"
    THEN [call EXCEPT !.pc = "done", !.got = "threw", !.content = <<>>]
    ELSE [call EXCEPT !.pc = "done", !.got = "threw", !.content = <<>>,
                      !.adSummary = Undefined,
                      !.result = CheckAdCompliance(Threw(msg))]

\* getPolicies up to its first await (lines 160-165).
EnterGetPolicies(c, kind, adSummary) ==
    LET started == [calls[c] EXCEPT !.kind = kind,
                                    !.adSummary = adSummary,
                                    !.overlap = {d \in Calls : InProgress(d)},
                                    !.emptyAtStart = ~CacheHit(cachedPolicies),
                                    !.afterSuccess = SomeReturned]
        mine == IF CacheHit(cachedPolicies)
                THEN AfterPolicies(started, cachedPolicies)
                ELSE [started EXCEPT !.pc = "fetching", !.fetches = @ + 1]
    IN
    calls' = [d \in Calls |->
                IF d = c THEN mine
                ELSE IF InProgress(d) THEN [calls[d] EXCEPT !.overlap = @ \cup {c}]
                ELSE calls[d]]

\* checker.getPolicies()
GetPolicies(c) ==
    /\ calls[c].pc = "new"
    /\ EnterGetPolicies(c, "getPolicies", Undefined)
    /\ UNCHANGED <<cachedPolicies, extracted, staticVars, serverVars, summarizerVars, processVars, uiVars>>

\* checker.checkAdCompliance(adSummary), up to the first await of
\* checkCompliance (lines 252-254, 177-185).
CheckAdComplianceCall(c) ==
    /\ calls[c].pc = "new"
    /\ \E adSummary \in AdSummaries :
        IF AdSummaryValid(adSummary)
        THEN EnterGetPolicies(c, "checkAdCompliance", adSummary)
        ELSE calls' = [calls EXCEPT ![c] =
                [@ EXCEPT !.pc = "done", !.kind = "checkAdCompliance",
                          !.result = CheckAdCompliance(
                              Threw("Failed to check compliance: Ad summary must be a non-empty string"))]]
    /\ UNCHANGED <<cachedPolicies, extracted, staticVars, serverVars, summarizerVars, processVars, uiVars>>

\* axios.get resolves: extractTextFromHtml, then the extraction model call
\* (lines 165-167, 114).
FetchResolve(c) ==
    /\ calls[c].pc = "fetching"
    /\ \E html \in Htmls :
        calls' = [calls EXCEPT ![c] =
            [@ EXCEPT !.pc = "extracting",
                      !.content = ExtractTextFromHtml(html), !.extracts = @ + 1]]
    /\ UNCHANGED <<cachedPolicies, extracted, staticVars, serverVars, summarizerVars, processVars, uiVars>>

\* axios.get rejects (status, timeout, network): fetchMetaPolicies throws.
FetchReject(c) ==
    /\ calls[c].pc = "fetching"
    /\ calls' = [calls EXCEPT ![c] = AfterThrow(@, "Failed to fetch Meta policies")]
    /\ UNCHANGED <<cachedPolicies, extracted, staticVars, serverVars, summarizerVars, processVars, uiVars>>

\* The extraction model call resolves (lines 123-153, 167-169).
ExtractResolve(c) ==
    /\ calls[c].pc = "extracting"
    /\ \E responseText \in ExtractResponses :
        LET outcome == ExtractOutcomes[responseText]
            cache == CacheAfterExtraction(cachedPolicies, outcome)
        IN
        /\ cachedPolicies' = cache
        /\ extracted' = IF outcome.ok THEN extracted \cup {outcome.v} ELSE extracted
        /\ calls' = [calls EXCEPT ![c] =
                LET answered == [@ EXCEPT !.extractAnswered = TRUE,
                                          !.extractAnswer = responseText]
                IN
                IF outcome.ok THEN AfterPolicies(answered, cache)
                ELSE AfterThrow(answered, outcome.v.s[1])]
    /\ UNCHANGED <<staticVars, serverVars, summarizerVars, processVars, uiVars>>

\* The extraction model call rejects.
ExtractReject(c) ==
    /\ calls[c].pc = "extracting"
    /\ calls' = [calls EXCEPT ![c] = AfterThrow(@, "Failed to extract policies with Claude")]
    /\ UNCHANGED <<cachedPolicies, extracted, staticVars, serverVars, summarizerVars, processVars, uiVars>>

\* The compliance model call resolves (lines 230-244, 254-261).
ComplianceResolve(c) ==
    /\ calls[c].pc = "evaluating"
    /\ \E responseText \in ComplianceResponses :
        calls' = [calls EXCEPT ![c] =
            [@ EXCEPT !.pc = "done", !.adSummary = Undefined,
                      !.answered = TRUE, !.answer = responseText,
                      !.result = ComplianceResults[responseText]]]
    /\ UNCHANGED <<cachedPolicies, extracted, staticVars, serverVars, summarizerVars, processVars, uiVars>>

\* The compliance model call rejects.
ComplianceReject(c) ==
    /\ calls[c].pc = "evaluating"
    /\ calls' = [calls EXCEPT ![c] =
            [@ EXCEPT !.pc = "done", !.adSummary = Undefined,
                      !.result = CheckAdCompliance(Threw("Failed to check compliance"))]]
    /\ UNCHANGED <<cachedPolicies, extracted, staticVars, serverVars, summarizerVars, processVars, uiVars>>

LiveNext ==
    \E c \in Calls :
        \/ GetPolicies(c)
        \/ CheckAdComplianceCall(c)
        \/ FetchResolve(c)
        \/ FetchReject(c)
        \/ ExtractResolve(c)
        \/ ExtractReject(c)
        \/ ComplianceResolve(c)
        \/ ComplianceReject(c)


(***************************************************************************)
(* The module functions of the live checker: createMetaAdsPolicyChecker    *)
(* and checkMetaAdsCompliance (part_001, lines 280-293)                    *)
(***************************************************************************)
\* Checker instances the process creates through the module functions.
NumCheckers == 2
Checkers == 1..NumCheckers

\* An instance not yet created.  via is the function that created it,
\* cachedPolicies its own field, afterExtraction history: whether a check of
\* the process had already extracted a policy set when this one's check
\* began.  fetches and extracts count the outbound calls of its check.
NoChecker ==
    [pc |-> "none", via |-> "none", cachedPolicies |-> Undefined,
     afterExtraction |-> FALSE, fetches |-> 0, extracts |-> 0,
     result |-> Undefined]

\* Line 21: the cache a constructed checker starts with.
ConstructedCache == JNull
\* Some instance of the process has extracted and stored a policy set.
ProcessExtracted == \E k \in Checkers : CacheHit(checkers[k].cachedPolicies)

\* checkAdCompliance on instance k up to its first await (lines 252-254,
\* 177-185, 160-165).
CheckOnInstance(k, created, adSummary) ==
    LET began == [created EXCEPT !.afterExtraction = ProcessExtracted] IN
    IF ~AdSummaryValid(adSummary)
    THEN [began EXCEPT !.pc = "done",
                       !.result = CheckAdCompliance(
                           Threw("Failed to check compliance: Ad summary must be a non-empty string"))]
    ELSE IF CacheHit(began.cachedPolicies)
    THEN [began EXCEPT !.pc = "evaluating"]
    ELSE [began EXCEPT !.pc = "fetching", !.fetches = @ + 1]

\* createMetaAdsPolicyChecker(anthropicApiKey) (lines 280-282).
CreateMetaAdsPolicyChecker(k) ==
    /\ checkers[k].pc = "none"
    /\ checkers' = [checkers EXCEPT ![k] =
            [@ EXCEPT !.pc = "created", !.via = "createMetaAdsPolicyChecker",
                      !.cachedPolicies = ConstructedCache]]
    /\ UNCHANGED <<liveVars, staticVars, serverVars, summarizerVars, uiVars>>

\* checker.checkAdCompliance(adSummary) on an instance the factory returned.
CreatedCheckAdCompliance(k) ==
    /\ checkers[k].pc = "created"
    /\ \E adSummary \in AdSummaries :
        checkers' = [checkers EXCEPT ![k] = CheckOnInstance(k, @, adSummary)]
    /\ UNCHANGED <<liveVars, staticVars, serverVars, summarizerVars, uiVars>>

\* checkMetaAdsCompliance(adSummary, anthropicApiKey) (lines 290-293): a new
\* instance, and checkAdCompliance on it.
CheckMetaAdsCompliance(k) ==
    /\ checkers[k].pc = "none"
    /\ \E adSummary \in AdSummaries :
        checkers' = [checkers EXCEPT ![k] =
            CheckOnInstance(k, [@ EXCEPT !.via = "checkMetaAdsCompliance",
                                         !.cachedPolicies = ConstructedCache],
                            adSummary)]
    /\ UNCHANGED <<liveVars, staticVars, serverVars, summarizerVars, uiVars>>

\* axios.get resolves; the page has text or not (lines 165-167, 82-84 are
\* those of FetchResolve).
InstanceFetchResolve(k) ==
    /\ checkers[k].pc = "fetching"
    /\ checkers' = [checkers EXCEPT ![k] =
            [@ EXCEPT !.pc = "extracting", !.extracts = @ + 1]]
    /\ UNCHANGED <<liveVars, staticVars, serverVars, summarizerVars, uiVars>>

InstanceFetchReject(k) ==
    /\ checkers[k].pc = "fetching"
    /\ checkers' = [checkers EXCEPT ![k] =
            [@ EXCEPT !.pc = "done",
                      !.result = CheckAdCompliance(Threw("Failed to fetch Meta policies"))]]
    /\ UNCHANGED <<liveVars, staticVars, serverVars, summarizerVars, uiVars>>

\* The extraction model call resolves (lines 123-153, 167-169).
InstanceExtractResolve(k) ==
    /\ checkers[k].pc = "extracting"
    /\ \E responseText \in ExtractResponses :
        LET outcome == ExtractOutcomes[responseText] IN
        checkers' = [checkers EXCEPT ![k] =
            IF outcome.ok
            THEN [@ EXCEPT !.pc = "evaluating",
                           !.cachedPolicies = CacheAfterExtraction(@, outcome)]
            ELSE [@ EXCEPT !.pc = "done",
                           !.result = CheckAdCompliance(outcome)]]
    /\ UNCHANGED <<liveVars, staticVars, serverVars, summarizerVars, uiVars>>

InstanceExtractReject(k) ==
    /\ checkers[k].pc = "extracting"
    /\ checkers' = [checkers EXCEPT ![k] =
            [@ EXCEPT !.pc = "done",
                      !.result = CheckAdCompliance(Threw("Failed to extract policies with Claude"))]]
    /\ UNCHANGED <<liveVars, staticVars, serverVars, summarizerVars, uiVars>>

\* The compliance model call resolves (lines 230-244, 254-261).
InstanceComplianceResolve(k) ==
    /\ checkers[k].pc = "evaluating"
    /\ \E responseText \in ComplianceResponses :
        checkers' = [checkers EXCEPT ![k] =
            [@ EXCEPT !.pc = "done", !.result = ComplianceResults[responseText]]]
    /\ UNCHANGED <<liveVars, staticVars, serverVars, summarizerVars, uiVars>>

InstanceComplianceReject(k) ==
    /\ checkers[k].pc = "evaluating"
    /\ checkers' = [checkers EXCEPT ![k] =
            [@ EXCEPT !.pc = "done",
                      !.result = CheckAdCompliance(Threw("Failed to check compliance"))]]
    /\ UNCHANGED <<liveVars, staticVars, serverVars, summarizerVars, uiVars>>

ProcessNext ==
    \E k \in Checkers :
        \/ CreateMetaAdsPolicyChecker(k)
        \/ CreatedCheckAdCompliance(k)
        \/ CheckMetaAdsCompliance(k)
        \/ InstanceFetchResolve(k)
        \/ InstanceFetchReject(k)
        \/ InstanceExtractResolve(k)
        \/ InstanceExtractReject(k)
        \/ InstanceComplianceResolve(k)
        \/ InstanceComplianceReject(k)

(***************************************************************************)
(* The static checker: src/unnamed/part_000                                *)
(***************************************************************************)
MaxSummaryLength == 10000
Severities == {Str("high"), Str("medium"), Str("low")}

\* validateInput: returns true or throws.
ValidateInput(summary) ==
    IF ~Truthy(summary) \/ summary.t # "str"
    THEN Threw("Summary must be a non-empty string")
    ELSE IF Trim(summary.s) = <<>>
    THEN Threw("Summary cannot be empty")
    ELSE IF StrLength(summary.s) > MaxSummaryLength
    THEN Threw("Summary is too long (max 10,000 characters)")
    ELSE Returned(JBool(TRUE))

\* A forEach callback that no longer checks the severity.
ViolationProblemIgnoringSeverity(violation) ==
    IF violation.t = "null"
    THEN "Cannot read properties of null"
    ELSE IF ~Truthy(Prop(violation, <<"category">>)) \/ ~Truthy(Prop(violation, <<"description">>))
    THEN "Violation missing required fields"
    ELSE ""

\* The body of the forEach callback of validateResponse: "" when the
\* violation passes, else the message of the Error or TypeError thrown.
ViolationProblem(violation) ==
    IF violation.t = "null"
    THEN "Cannot read properties of null"
    ELSE IF ~Truthy(Prop(violation, <<"category">>)) \/ ~Truthy(Prop(violation, <<"description">>))
    THEN "Violation missing required fields"
    ELSE IF Prop(violation, <<"severity">>) \notin Severities
    THEN "Invalid severity level in violation"
    ELSE ""

\* validateResponse: returns or throws.
ValidateResponse(response) ==
    IF ~Truthy(response) \/ response.t \notin {"obj", "arr"}
    THEN Threw("Invalid response format")
    ELSE IF Prop(response, <<"violated">>).t # "bool"
    THEN Threw("Response must include violated boolean field")
    ELSE IF Prop(response, <<"violations">>).t # "arr"
    THEN Threw("Response must include violations array field")
    ELSE
        LET vs == Prop(response, <<"violations">>).a
            bad == {i \in 1..Len(vs) : ViolationProblem(vs[i]) # ""}
        IN
        IF bad = {} THEN Returned(Undefined) ELSE Threw(ViolationProblem(vs[Min(bad)]))

Timestamp == Str("now")
CheckPolicyFailure(msg) ==
    JObj(<<Member(<<"success">>, JBool(FALSE)),
           Member(<<"error">>, msg),
           Member(<<"timestamp">>, Timestamp)>>)
CheckPolicySuccess(data) ==
    JObj(<<Member(<<"success">>, JBool(TRUE)),
           Member(<<"data">>, data),
           Member(<<"timestamp">>, Timestamp)>>)

\* Lines 129-141: the JSON taken out of the model's answer.
ParseAnalysis(text) ==
    LET jsonMatch == GreedyMatch(text, "{", "}")
        parsed == JsonParse(jsonMatch.text)
    IN
    IF ~jsonMatch.found
    THEN Threw("Failed to parse AI response as JSON: No valid JSON found in response")
    ELSE IF ~parsed.ok
    THEN Threw("Failed to parse AI response as JSON: SyntaxError")
    ELSE Returned(parsed.v)

\* checkPolicy from the model's answer on (lines 127-158).
CheckPolicyAnswer(text) ==
    LET parsed == ParseAnalysis(text) IN
    IF ~parsed.ok THEN CheckPolicyFailure(parsed.v)
    ELSE
        LET valid == ValidateResponse(parsed.v) IN
        IF ~valid.ok THEN CheckPolicyFailure(valid.v) ELSE CheckPolicySuccess(parsed.v)

\* loadPolicyFile's parameter default: './meta-ads-policy.txt' stands in
\* for an argument that is undefined, and for no other.
DefaultPolicyPath == Str("./meta-ads-policy.txt")
PolicyPathParameter(arg) == IF arg.t = "undefined" THEN DefaultPolicyPath ELSE arg
\* path.resolve(p) throws a TypeError unless p is a string.
PathResolves(p) == p.t = "str"

\* Line 117: whether checkPolicy loads the policy file first.
NeedsPolicyLoad(content, policyFilePath) ==
    ~Truthy(content) \/ Truthy(policyFilePath)

(***************************************************************************)
(* Inputs of the static checker                                            *)
(***************************************************************************)
\* Invocations made on the one static checker instance.
NumChecks == 2
Checks == 1..NumChecks

Summaries ==
    { JStr(<<"Guaranteed", " ", "returns">>), JStr(<<" ">>), JStr(<<>>),
      JStr(<<LongRun>>), Undefined }

\* The policyFilePath argument: omitted (the parameter's default, null) or
\* a path of the caller's.
PolicyPathArguments == { JNull, Str("custom-policy.txt") }

\* What fs.readFile can resolve to.
FileContents == { <<"No", " ", "weapons">>, <<" ", "NL">> }

Violation(category, description, severity) ==
    JObj(<<Member(<<"category">>, category),
           Member(<<"description">>, description),
           Member(<<"severity">>, severity)>>)
GoodViolation == Violation(Str("Deceptive"), Str("GuaranteedReturns"), Str("high"))
LowViolation == Violation(Str("Alcohol"), Str("NoAgeGate"), Str("low"))
BadViolations ==
    { Violation(JStr(<<>>), Str("d"), Str("high")),
      Violation(Str("c"), JStr(<<>>), Str("medium")),
      Violation(JNull, Str("d"), Str("low")),
      Violation(Str("c"), Str("d"), Str("critical")),
      Violation(Str("c"), Str("d"), Str("High")),
      JObj(<<Member(<<"description">>, Str("d")), Member(<<"severity">>, Str("high"))>>),
      JObj(<<Member(<<"category">>, Str("c")), Member(<<"severity">>, Str("high"))>>),
      JObj(<<Member(<<"category">>, Str("c")), Member(<<"description">>, Str("d"))>>),
      JNull,
      Str("Deceptive") }
GoodLists == { <<>>, <<GoodViolation>>, <<GoodViolation, LowViolation>> }
BadLists ==
    { <<b>> : b \in BadViolations }
    \cup { <<GoodViolation, Violation(Str("c"), Str("d"), Str("critical"))>>,
           <<GoodViolation, JNull>> }

Analysis(violated, violations) ==
    JObj(<<Member(<<"violated">>, violated),
           Member(<<"violations">>, violations),
           Member(<<"reasoning">>, Str("Because"))>>)
AnalysisValues ==
    { Analysis(JBool(b), JArr(vs)) : b \in BOOLEAN, vs \in GoodLists }
    \cup { Analysis(JBool(TRUE), JArr(vs)) : vs \in BadLists }
    \cup { Analysis(v, JArr(<<GoodViolation>>)) : v \in {Str("true"), JNull, JNum("1")} }
    \cup { Analysis(JBool(TRUE), v) : v \in {JNull, Str("none"), JObj(<<>>)} }
    \cup { JObj(<<Member(<<"violated">>, JBool(FALSE))>>),
           JObj(<<Member(<<"violations">>, JArr(<<>>))>>),
           JObj(<<>>) }

\* What the evaluation model call can answer: the objects above as
\* JSON, some of them inside prose or a code fence, and answers that hold
\* no JSON object.
WrappedValues ==
    { Analysis(JBool(FALSE), JArr(<<>>)),
      Analysis(JBool(TRUE), JArr(<<GoodViolation>>)),
      Analysis(JBool(FALSE), JArr(<<GoodViolation>>)) }
\* The prose a model puts before and after the object.
Prose(before, after) == [before |-> before, after |-> after]
ProseWrappings ==
    { Prose(<<"Sure", "!", " ">>, <<"NL", "Done">>),
      Prose(<<"~~~", "json", "NL">>, <<"NL", "~~~">>),
      Prose(<<"Use", " ", "{", "braces", "}", " ">>, <<>>) }
Wrapped(w, v) == w.before \o Stringify(v) \o w.after
EvalResponses ==
    { Stringify(v) : v \in AnalysisValues }
    \cup { Wrapped(w, v) : w \in ProseWrappings, v \in WrappedValues }
    \cup { <<"I", " ", "cannot", " ", "judge">>,
           <<>>,
           <<"42">>,
           <<"[", "]">>,
           <<"{", "\"", "violated", "\"", ":", "false", ",">>,
           <<"{", "violated", ":", "false", "}">>,
           <<"}", " ", "{">> }

CheckPolicyAnswers == [r \in EvalResponses |-> CheckPolicyAnswer(r)]

(***************************************************************************)
(* State of the static checker                                             *)
(***************************************************************************)
\* An invocation not yet made.  policyFilePath is the argument of
\* checkPolicy and heldPolicy whether the checker held a policy when it was
\* called; promptPolicy is the policy text that went into the prompt; loads and evals count the file reads and model calls
\* it issued; answer is the text the model call resolved to.
NewCheck ==
    [pc |-> "new", kind |-> "none", summary |-> Undefined,
     policyFilePath |-> Undefined, heldPolicy |-> FALSE, loads |-> 0, evals |-> 0,
     promptPolicy |-> Undefined, answered |-> FALSE, answer |-> <<>>,
     result |-> Undefined]

\* Lines 121-125: the prompt is built from this.policyContent and the
\* model call is issued.
Evaluating(check, content) ==
    [check EXCEPT !.pc = "evaluating", !.promptPolicy = content, !.evals = @ + 1]

Finished(check, result) == [check EXCEPT !.pc = "done", !.result = result]

\* checker.checkPolicy(summary, policyFilePath), up to its first await
\* (lines 111-125; loadPolicyFile lines 31-34).
CheckPolicy(k) ==
    /\ checks[k].pc = "new"
    /\ \E summary \in Summaries, policyFilePath \in PolicyPathArguments :
        LET valid == ValidateInput(summary)
            started == [checks[k] EXCEPT !.kind = "checkPolicy", !.summary = summary,
                                         !.policyFilePath = policyFilePath,
                                         !.heldPolicy = Truthy(policyContent)]
        IN
        checks' = [checks EXCEPT ![k] =
            IF ~valid.ok THEN Finished(started, CheckPolicyFailure(valid.v))
            ELSE IF NeedsPolicyLoad(policyContent, policyFilePath)
            THEN IF PathResolves(PolicyPathParameter(policyFilePath))
                 THEN [started EXCEPT !.pc = "loading", !.loads = @ + 1]
                 ELSE Finished(started,
                        CheckPolicyFailure(Str("Failed to load policy file: The paths[0] argument must be of type string")))
            ELSE Evaluating(started, policyContent)]
    /\ UNCHANGED <<policyContent, liveVars, serverVars, summarizerVars, processVars, uiVars>>

\* checker.loadPolicyFile(policyFilePath), called by the user of the
\* checker, with a path or with none (lines 31-34).
LoadPolicyFile(k) ==
    /\ checks[k].pc = "new"
    /\ \E policyFilePath \in {Undefined, Str("custom-policy.txt")} :
        checks' = [checks EXCEPT ![k] =
            IF PathResolves(PolicyPathParameter(policyFilePath))
            THEN [@ EXCEPT !.kind = "loadPolicyFile", !.pc = "loading", !.loads = @ + 1]
            ELSE [@ EXCEPT !.kind = "loadPolicyFile", !.pc = "done", !.result = JBool(FALSE)]]
    /\ UNCHANGED <<policyContent, liveVars, serverVars, summarizerVars, processVars, uiVars>>

\* What loadPolicyFile leaves behind once fs.readFile has resolved
\* (lines 34-38): the field is assigned, then the content is tested.
LoadedContent(content) == JStr(content)
LoadedContentUsable(content) == Trim(content) # <<>>

\* fs.readFile resolves (lines 34-41), and checkPolicy goes on (119-125).
ReadFileResolve(k) ==
    /\ checks[k].pc = "loading"
    /\ \E content \in FileContents :
        /\ policyContent' = LoadedContent(content)
        /\ checks' = [checks EXCEPT ![k] =
            IF checks[k].kind = "loadPolicyFile"
            THEN Finished(@, JBool(LoadedContentUsable(content)))
            ELSE IF LoadedContentUsable(content)
            THEN Evaluating(@, LoadedContent(content))
            ELSE Finished(@, CheckPolicyFailure(
                    Str("Failed to load policy file: Policy file is empty or invalid")))]
    /\ UNCHANGED <<liveVars, serverVars, summarizerVars, processVars, uiVars>>

\* fs.readFile rejects: the file is absent or unreadable.
ReadFileReject(k) ==
    /\ checks[k].pc = "loading"
    /\ checks' = [checks EXCEPT ![k] =
            IF checks[k].kind = "loadPolicyFile"
            THEN Finished(@, JBool(FALSE))
            ELSE Finished(@, CheckPolicyFailure(Str("Failed to load policy file: ENOENT")))]
    /\ UNCHANGED <<policyContent, liveVars, serverVars, summarizerVars, processVars, uiVars>>

\* model.generateContent resolves (lines 125-158).
GenerateResolve(k) ==
    /\ checks[k].pc = "evaluating"
    /\ \E text \in EvalResponses :
        checks' = [checks EXCEPT ![k] =
            [Finished(@, CheckPolicyAnswers[text]) EXCEPT !.answered = TRUE, !.answer = text]]
    /\ UNCHANGED <<policyContent, liveVars, serverVars, summarizerVars, processVars, uiVars>>

\* model.generateContent rejects: transport, authentication, quota.
GenerateReject(k) ==
    /\ checks[k].pc = "evaluating"
    /\ checks' = [checks EXCEPT ![k] = Finished(@, CheckPolicyFailure(Str("fetch failed")))]
    /\ UNCHANGED <<policyContent, liveVars, serverVars, summarizerVars, processVars, uiVars>>

StaticNext ==
    \E k \in Checks :
        \/ CheckPolicy(k)
        \/ LoadPolicyFile(k)
        \/ ReadFileResolve(k)
        \/ ReadFileReject(k)
        \/ GenerateResolve(k)
        \/ GenerateReject(k)

(***************************************************************************)
(* The summarizer: src/backend/summarize-multimedia-gemini/index.js        *)
(***************************************************************************)
SupportedVideoFormats ==
    {"video/mp4", "video/avi", "video/mov", "video/wmv", "video/flv", "video/webm", "video/mkv"}
SupportedImageFormats ==
    {"image/jpeg", "image/jpg", "image/png", "image/gif", "image/webp", "image/bmp",
     "image/tiff", "image/svg+xml"}
SupportedFormats == SupportedVideoFormats \cup SupportedImageFormats
MaxFileSize == 104857600
MaxPromptLength == 1000

\* mime.lookup(filePath), by the file's extension; "" is its false.
MimeLookup(ext) ==
    CASE ext = "mp4" -> "video/mp4"
      [] ext = "avi" -> "video/x-msvideo"
      [] ext = "png" -> "image/png"
      [] ext = "txt" -> "text/plain"
      [] OTHER -> ""

\* validateInput: the Joi schema of filePath and prompt.
AnalyzeInputValid(filePath, promptLength) ==
    filePath # "" /\ promptLength >= 1 /\ promptLength <= MaxPromptLength

\* A validateMultimediaFile that does not look at the size.
FileProblemIgnoringSize(file, exists, isFile) ==
    IF ~exists THEN "File not found"
    ELSE IF ~isFile THEN "Path is not a file"
    ELSE IF MimeLookup(file.ext) = "" \/ MimeLookup(file.ext) \notin SupportedFormats
    THEN "Unsupported file format"
    ELSE ""

\* validateMultimediaFile: exists and isFile are what the file system
\* answers; "" when the file passes, else the message.
FileProblem(file, exists, isFile) ==
    IF ~exists THEN "File not found"
    ELSE IF ~isFile THEN "Path is not a file"
    ELSE IF file.size > MaxFileSize THEN "File size exceeds maximum limit"
    ELSE IF MimeLookup(file.ext) = "" \/ MimeLookup(file.ext) \notin SupportedFormats
    THEN "Unsupported file format"
    ELSE ""

MediaType(mimeType) ==
    IF mimeType \in SupportedVideoFormats THEN "video"
    ELSE IF mimeType \in SupportedImageFormats THEN "image"
    ELSE "unknown"

FileMetadata(file) ==
    JObj(<<Member(<<"fileName">>, Str(file.filename)),
           Member(<<"fileSize">>, JNum("size")),
           Member(<<"mimeType">>, Str(MimeLookup(file.ext))),
           Member(<<"mediaType">>, Str(MediaType(MimeLookup(file.ext)))),
           Member(<<"analyzedAt">>, Timestamp)>>)

AnalysisFailure(msg) ==
    JObj(<<Member(<<"success">>, JBool(FALSE)),
           Member(<<"data">>, JNull),
           Member(<<"error">>,
                  JObj(<<Member(<<"message">>, Str(msg)),
                         Member(<<"timestamp">>, Timestamp),
                         Member(<<"type">>, Str("Error"))>>))>>)
AnalysisSuccess(data) ==
    JObj(<<Member(<<"success">>, JBool(TRUE)),
           Member(<<"data">>, data),
           Member(<<"error">>, JNull)>>)

RawFallback(text) ==
    JObj(<<Member(<<"summary">>, JStr(Trim(text))),
           Member(<<"keyPoints">>, JArr(<<Str("Raw analysis response provided")>>)),
           Member(<<"note">>, Str("Response was not in expected JSON format, using raw text"))>>)

\* Lines 187-210: the value taken from the model's answer.
ParseSummary(text) ==
    LET direct == JsonParse(text)
        jsonMatch == GreedyMatch(text, "{", "}")
        second == JsonParse(jsonMatch.text)
    IN
    IF direct.ok THEN direct.v
    ELSE IF jsonMatch.found /\ second.ok THEN second.v
    ELSE RawFallback(text)

\* An array that carries own properties besides its elements.
JArrWith(a, o) == [t |-> "arrx", a |-> a, o |-> o]
\* v.key, own properties of such an array included.
PropOf(v, k) == IF v.t = "arrx" THEN GetMember(v.o, k) ELSE Prop(v, k)

\* An analyzeMultimedia that takes every answer for raw text.
AnalyzeAnswerRawOnly(text, file) ==
    AnalysisSuccess(JObj(SetMember(RawFallback(text).o, <<"fileMetadata">>, FileMetadata(file))))

\* An analyzeMultimedia that keeps a fileMetadata the model's answer has.
AnalyzeAnswerKeepingModelMetadata(text, file) ==
    LET v == ParseSummary(text) IN
    IF v.t = "obj"
    THEN AnalysisSuccess(
            IF Prop(v, <<"fileMetadata">>) # Undefined THEN v
            ELSE JObj(SetMember(v.o, <<"fileMetadata">>, FileMetadata(file))))
    ELSE IF v.t = "arr"
    THEN AnalysisSuccess(JArrWith(v.a, <<Member(<<"fileMetadata">>, FileMetadata(file))>>))
    ELSE AnalysisFailure("Cannot create property fileMetadata")

\* analyzeMultimedia from the model's answer on (lines 182-237).  The
\* module is an ES module, hence strict: assigning fileMetadata on null or
\* on a primitive throws a TypeError, which the catch turns into a failure.
AnalyzeAnswer(text, file) ==
    LET v == ParseSummary(text) IN
    IF v.t = "obj"
    THEN AnalysisSuccess(JObj(SetMember(v.o, <<"fileMetadata">>, FileMetadata(file))))
    ELSE IF v.t = "arr"
    THEN AnalysisSuccess(JArrWith(v.a, <<Member(<<"fileMetadata">>, FileMetadata(file))>>))
    ELSE AnalysisFailure("Cannot create property fileMetadata")

(***************************************************************************)
(* The /summarize handler: src/backend/server.js                           *)
(***************************************************************************)
\* Requests handled by the process.
NumRequests == 2
Requests == 1..NumRequests

\* The length of the handler's analysisPrompt.
AnalysisPromptLength == 593

\* req.file as multer leaves it (its fileFilter admits these extensions
\* and its limit the sizes up to MAX_FILE_SIZE); NoFile is no upload.
NoFile == [originalname |-> "", filename |-> "", ext |-> "", size |-> 0]
UploadedFiles ==
    { [originalname |-> "ad.mp4", filename |-> "file-1.mp4", ext |-> "mp4", size |-> 2048],
      [originalname |-> "ad.avi", filename |-> "file-2.avi", ext |-> "avi", size |-> 2048] }

ServerVideoTypes == {"mp4", "avi", "mov", "wmv", "flv", "webm", "mkv"}
ServerImageTypes == {"jpg", "jpeg", "png", "gif", "bmp", "webp"}
FileType(ext) ==
    IF ext \in ServerVideoTypes THEN "video"
    ELSE IF ext \in ServerImageTypes THEN "image"
    ELSE "unknown"

\* What the summarization model call can answer.
SummaryValue ==
    JObj(<<Member(<<"summary">>, JStr(<<"Guaranteed", " ", "returns">>)),
           Member(<<"keyPoints">>, JArr(<<Str("NoRisk"), Str("Deadline")>>))>>)
SummaryResponses ==
    { Stringify(SummaryValue),
      <<"Here", ":", " ">> \o Stringify(SummaryValue),
      <<"The", " ", "ad", " ", "shows", " ", "coffee">>,
      <<"{", "}">>,
      <<"[", "]">>,
      <<"42">> }

\* What the evaluation model call can answer to the handler's checker.
ServerEvalResponses ==
    { Stringify(Analysis(JBool(FALSE), JArr(<<>>))),
      Stringify(Analysis(JBool(TRUE), JArr(<<GoodViolation>>))),
      <<" ">> \o Stringify(Analysis(JBool(TRUE), JArr(<<LowViolation, GoodViolation>>))) \o <<"NL">>,
      Stringify(Analysis(JBool(TRUE), JArr(<<Violation(Str("c"), Str("d"), Str("critical"))>>))),
      <<"I", " ", "cannot", " ", "judge">> }

\* res.json(body): members whose value is undefined are not sent.
Body(members) == JObj(SelectSeq(members, LAMBDA m : m.v.t # "undefined"))

FileInfo(file) ==
    Body(<<Member(<<"originalName">>, Str(file.originalname)),
           Member(<<"filename">>, Str(file.filename)),
           Member(<<"fileSize">>, JNum("size")),
           Member(<<"fileType">>, Str(FileType(file.ext))),
           Member(<<"uploadDate">>, Str("uploadDate"))>>)

AnalysisBlock(analysisResult) ==
    LET data == Prop(analysisResult, <<"data">>) IN
    Body(<<Member(<<"summary">>, PropOf(data, <<"summary">>)),
           Member(<<"keyPoints">>, PropOf(data, <<"keyPoints">>)),
           Member(<<"fileMetadata">>, PropOf(data, <<"fileMetadata">>))>>)

Response(status, body) == [status |-> status, body |-> body]

\* Lines 187-191.
NoFileResponse ==
    Response(400, Body(<<Member(<<"success">>, JBool(FALSE)),
                         Member(<<"message">>, Str("No file provided. Please upload a video or image file.")),
                         Member(<<"error">>, Str("NO_FILE_PROVIDED"))>>))

\* Lines 255-282.
CompletedResponse(file, analysisResult, policyResult) ==
    LET data == Prop(policyResult, <<"data">>) IN
    Response(201, Body(<<
        Member(<<"success">>, JBool(TRUE)),
        Member(<<"message">>, Str("analyzed and policy-checked successfully")),
        Member(<<"fileInfo">>, FileInfo(file)),
        Member(<<"analysis">>, AnalysisBlock(analysisResult)),
        Member(<<"policyCheck">>,
               Body(<<Member(<<"violated">>, Prop(data, <<"violated">>)),
                      Member(<<"violations">>, Prop(data, <<"violations">>)),
                      Member(<<"reasoning">>, Prop(data, <<"reasoning">>)),
                      Member(<<"checkedAt">>, Prop(policyResult, <<"timestamp">>))>>)),
        Member(<<"timestamp">>, Timestamp)>>))

\* Lines 284-312: the policyError handler.
DegradedResponse(file, analysisResult, message) ==
    Response(201, Body(<<
        Member(<<"success">>, JBool(TRUE)),
        Member(<<"message">>, Str("analyzed successfully, but policy check failed")),
        Member(<<"fileInfo">>, FileInfo(file)),
        Member(<<"analysis">>, AnalysisBlock(analysisResult)),
        Member(<<"policyCheck">>,
               Body(<<Member(<<"error">>, Str("Policy analysis failed")),
                      Member(<<"details">>, message)>>)),
        Member(<<"timestamp">>, Timestamp)>>))

\* An analysisError handler that sends no fileInfo.
AnalysisFailedResponseWithoutFileInfo(file, message) ==
    Response(500, Body(<<
        Member(<<"success">>, JBool(FALSE)),
        Member(<<"message">>, Str("File uploaded successfully but analysis failed")),
        Member(<<"error">>, Str("ANALYSIS_FAILED")),
        Member(<<"details">>, message),
        Member(<<"timestamp">>, Timestamp)>>))

\* Lines 315-332: the analysisError handler.
AnalysisFailedResponse(file, message) ==
    Response(500, Body(<<
        Member(<<"success">>, JBool(FALSE)),
        Member(<<"message">>, Str("File uploaded successfully but analysis failed")),
        Member(<<"error">>, Str("ANALYSIS_FAILED")),
        Member(<<"details">>, message),
        Member(<<"fileInfo">>, FileInfo(file)),
        Member(<<"timestamp">>, Timestamp)>>))

\* A handler that goes on to the policy stage whatever the analysis gave.
AnalysisSucceededAlways(analysisResult) == TRUE

\* Line 228: the test that lets the handler go on to the policy stage.
AnalysisSucceeded(analysisResult) == Truthy(Prop(analysisResult, <<"success">>))

\* A handler that takes every policyResult for a verdict.
PolicySucceededAlways(policyResult) == TRUE

\* Line 248: the test that lets the handler report the verdict.
PolicySucceeded(policyResult) == Truthy(Prop(policyResult, <<"success">>))

\* The Error that loadPolicyFile throws into the handler.
LoadError(msg) == [t |-> "error", message |-> Str(msg)]

\* `${prefix}${error.message}`.
Prefixed(prefix, message) ==
    IF message.t = "str" THEN JStr(<<prefix>> \o message.s) ELSE Str(prefix)

\* A request that has not reached the handler.  stages is the history of
\* the stages it went through; sumCalls, loads and evals count the
\* summarization model calls, policy file reads and evaluation model calls
\* it issued; analysis is analysisResult; policy is what the policy stage
\* came to (policyResult, or the error loadPolicyFile threw); checkerContent
\* is the policyContent of the checker the request constructed;
\* summaryAnswer and evalAnswer are the texts the two model calls returned.
NewRequest ==
    [pc |-> "new", file |-> NoFile, stages |-> <<>>,
     sumCalls |-> 0, loads |-> 0, evals |-> 0,
     summaryAnswered |-> FALSE, summaryAnswer |-> <<>>,
     evalAnswered |-> FALSE, evalAnswer |-> <<>>,
     analysis |-> Undefined, policy |-> Undefined,
     checkerContent |-> JNull, responses |-> <<>>]

\* res.status(..).json(..) as the last thing the handler does.
Respond(req, stage, response) ==
    [req EXCEPT !.pc = "responded",
                !.stages = @ \o <<stage>>,
                !.responses = @ \o <<response>>]

\* Lines 284-312, entered by a throw in lines 238-250.
Degrade(req, policy, message) ==
    Respond([req EXCEPT !.policy = policy], "CompletedWithEvaluationDegraded",
            DegradedResponse(req.file, req.analysis, message))

\* Lines 246-282: policyResult is in.
AfterPolicy(req, policyResult) ==
    IF PolicySucceeded(policyResult)
    THEN Respond([req EXCEPT !.policy = policyResult], "Completed",
                 CompletedResponse(req.file, req.analysis, policyResult))
    ELSE Degrade(req, policyResult,
                 Prefixed("Policy analysis failed: ", Prop(policyResult, <<"error">>)))

\* Lines 226-243: analysisResult is in; on success the handler constructs
\* a checker and calls loadPolicyFile with the joined path, which issues
\* the read.
AfterAnalysis(req, analysisResult) ==
    LET known == [req EXCEPT !.analysis = analysisResult] IN
    IF AnalysisSucceeded(analysisResult)
    THEN [known EXCEPT !.pc = "loadingPolicy",
                       !.stages = @ \o <<"Summarized", "Evaluating">>,
                       !.checkerContent = JNull,
                       !.loads = @ + 1]
    ELSE Respond(known, "SummarizationFailed",
                 AnalysisFailedResponse(req.file,
                     Prefixed("Gemini analysis failed: ",
                              Prop(Prop(analysisResult, <<"error">>), <<"message">>))))

\* Lines 183-226 on a request that carries the given upload.
EnterSummarize(req, file) ==
    IF file = NoFile
    THEN Respond(req, "Rejected", NoFileResponse)
    ELSE
        LET received == [req EXCEPT !.file = file,
                                    !.stages = <<"Received", "Summarizing">>]
        IN
        IF AnalyzeInputValid(file.filename, AnalysisPromptLength)
        THEN [received EXCEPT !.pc = "validating"]
        ELSE AfterAnalysis(received, AnalysisFailure("Validation error"))

\* The handler is entered (lines 183-226); analyzeMultimedia runs to its
\* first await (index.js lines 137-149).
Summarize(r) ==
    /\ requests[r].pc = "new"
    /\ \E file \in UploadedFiles \cup {NoFile} :
        requests' = [requests EXCEPT ![r] =
            EnterSummarize(requests[r], file)]
    /\ UNCHANGED <<liveVars, staticVars, summarizerVars, processVars, uiVars>>

\* validateMultimediaFile and fileToBase64 have the file system's answers
\* (index.js lines 149-166); the model call is issued (line 182).
FileChecked(r) ==
    /\ requests[r].pc = "validating"
    /\ \E exists \in BOOLEAN, isFile \in BOOLEAN, readable \in BOOLEAN :
        LET problem == FileProblem(requests[r].file, exists, isFile) IN
        requests' = [requests EXCEPT ![r] =
            IF problem # ""
            THEN AfterAnalysis(requests[r], AnalysisFailure(problem))
            ELSE IF ~readable
            THEN AfterAnalysis(requests[r], AnalysisFailure("Failed to convert file to base64"))
            ELSE [requests[r] EXCEPT !.pc = "summarizing", !.sumCalls = @ + 1]]
    /\ UNCHANGED <<liveVars, staticVars, summarizerVars, processVars, uiVars>>

\* The summarization model call resolves (index.js lines 182-229).
SummaryResolve(r) ==
    /\ requests[r].pc = "summarizing"
    /\ \E text \in SummaryResponses :
        requests' = [requests EXCEPT ![r] =
            AfterAnalysis([requests[r] EXCEPT !.summaryAnswered = TRUE,
                                              !.summaryAnswer = text],
                          AnalyzeAnswer(text, requests[r].file))]
    /\ UNCHANGED <<liveVars, staticVars, summarizerVars, processVars, uiVars>>

\* The summarization model call rejects (index.js lines 231-237).
SummaryReject(r) ==
    /\ requests[r].pc = "summarizing"
    /\ requests' = [requests EXCEPT ![r] =
            AfterAnalysis(requests[r], AnalysisFailure("Model call failed"))]
    /\ UNCHANGED <<liveVars, staticVars, summarizerVars, processVars, uiVars>>

\* The policy file read resolves (part_000 lines 34-41), and the handler
\* calls checkPolicy with the summary (server.js line 246; part_000 lines
\* 111-125).
PolicyFileResolve(r) ==
    /\ requests[r].pc = "loadingPolicy"
    /\ \E content \in FileContents :
        LET loaded == [requests[r] EXCEPT !.checkerContent = LoadedContent(content)]
            summary == PropOf(Prop(requests[r].analysis, <<"data">>), <<"summary">>)
            valid == ValidateInput(summary)
        IN
        requests' = [requests EXCEPT ![r] =
            IF ~LoadedContentUsable(content)
            THEN Degrade(loaded, LoadError("Failed to load policy file: Policy file is empty"),
                         Str("Failed to load policy file: Policy file is empty"))
            ELSE IF ~valid.ok
            THEN AfterPolicy(loaded, CheckPolicyFailure(valid.v))
            ELSE IF NeedsPolicyLoad(loaded.checkerContent, JNull)
            THEN AfterPolicy(loaded, CheckPolicyFailure(Str("Failed to load policy file")))
            ELSE [loaded EXCEPT !.pc = "evaluating", !.evals = @ + 1]]
    /\ UNCHANGED <<liveVars, staticVars, summarizerVars, processVars, uiVars>>

\* The policy file read rejects (part_000 lines 39-41).
PolicyFileReject(r) ==
    /\ requests[r].pc = "loadingPolicy"
    /\ requests' = [requests EXCEPT ![r] =
            Degrade(requests[r], LoadError("Failed to load policy file: ENOENT"),
                    Str("Failed to load policy file: ENOENT"))]
    /\ UNCHANGED <<liveVars, staticVars, summarizerVars, processVars, uiVars>>

\* The evaluation model call resolves (part_000 lines 125-150).
EvaluationResolve(r) ==
    /\ requests[r].pc = "evaluating"
    /\ \E text \in ServerEvalResponses :
        requests' = [requests EXCEPT ![r] =
            AfterPolicy([requests[r] EXCEPT !.evalAnswered = TRUE, !.evalAnswer = text],
                        CheckPolicyAnswer(text))]
    /\ UNCHANGED <<liveVars, staticVars, summarizerVars, processVars, uiVars>>

\* The evaluation model call rejects or times out (part_000 lines 152-158).
EvaluationReject(r) ==
    /\ requests[r].pc = "evaluating"
    /\ requests' = [requests EXCEPT ![r] =
            AfterPolicy(requests[r], CheckPolicyFailure(Str("Model call failed")))]
    /\ UNCHANGED <<liveVars, staticVars, summarizerVars, processVars, uiVars>>

ServerNext ==
    \E r \in Requests :
        \/ Summarize(r)
        \/ FileChecked(r)
        \/ SummaryResolve(r)
        \/ SummaryReject(r)
        \/ PolicyFileResolve(r)
        \/ PolicyFileReject(r)
        \/ EvaluationResolve(r)
        \/ EvaluationReject(r)

(***************************************************************************)
(* The summarizer called on its own: analyzeMultimedia(filePath, prompt)   *)
(***************************************************************************)
\* Invocations of analyzeMultimedia.
NumAnalyses == 2
Analyses == 1..NumAnalyses

\* The prompt, by its length: the schema looks at nothing else.
PromptLengths == {0, 1, MaxPromptLength, MaxPromptLength + 1}

\* The files a caller can name, by extension and size.
MediaFile(ext, size) ==
    [originalname |-> "media", filename |-> "media", ext |-> ext, size |-> size]
AnalyzedFiles ==
    { MediaFile("mp4", MaxFileSize), MediaFile("mp4", MaxFileSize + 1),
      MediaFile("png", 2048), MediaFile("avi", 2048),
      MediaFile("txt", 2048), MediaFile("", 2048) }

\* What the summarization model call can answer to such an invocation.
AnalysisResponses ==
    SummaryResponses
    \cup { Stringify(JObj(<<Member(<<"summary">>, Str("Coffee")),
                             Member(<<"fileMetadata">>,
                                    JObj(<<Member(<<"fileName">>, Str("other.mp4"))>>))>>)),
           <<"null">>,
           <<"\"", "A", " ", "gun", "\"">>,
           <<" ", "NL">>,
           <<"See", " ", "{", "gun", "}">> }
AnalysisOutcomes ==
    [f \in AnalyzedFiles |-> [text \in AnalysisResponses |-> AnalyzeAnswer(text, f)]]

\* An invocation not yet made.  exists and isFile are what the file system
\* answered to validateMultimediaFile; modelCalls counts the calls of the
\* generation service; answer is the text it returned.
NewAnalysis ==
    [pc |-> "new", file |-> NoFile, promptLength |-> 0,
     checked |-> FALSE, exists |-> FALSE, isFile |-> FALSE,
     modelCalls |-> 0, answered |-> FALSE, answer |-> <<>>, result |-> Undefined]

Analyzed(analysis, result) == [analysis EXCEPT !.pc = "done", !.result = result]

\* analyzeMultimedia up to its first await (lines 137-146).
AnalyzeMultimedia(a) ==
    /\ analyses[a].pc = "new"
    /\ \E file \in AnalyzedFiles, promptLength \in PromptLengths :
        LET called == [analyses[a] EXCEPT !.file = file, !.promptLength = promptLength] IN
        analyses' = [analyses EXCEPT ![a] =
            IF AnalyzeInputValid(file.filename, promptLength)
            THEN [called EXCEPT !.pc = "validating"]
            ELSE Analyzed(called, AnalysisFailure("Input validation failed"))]
    /\ UNCHANGED <<liveVars, staticVars, serverVars, processVars, uiVars>>

\* validateMultimediaFile and fileToBase64 have the file system's answers;
\* the generation service is called (lines 146-179).
ValidateMultimediaFile(a) ==
    /\ analyses[a].pc = "validating"
    /\ \E exists \in BOOLEAN, isFile \in BOOLEAN, readable \in BOOLEAN :
        LET problem == FileProblem(analyses[a].file, exists, isFile)
            checked == [analyses[a] EXCEPT !.checked = TRUE, !.exists = exists,
                                           !.isFile = exists /\ isFile]
        IN
        /\ exists \/ ~isFile
        /\ (exists /\ isFile) \/ readable
        /\ analyses' = [analyses EXCEPT ![a] =
            IF problem # ""
            THEN Analyzed(checked, AnalysisFailure(problem))
            ELSE IF ~readable
            THEN Analyzed(checked, AnalysisFailure("Failed to read file"))
            ELSE [checked EXCEPT !.pc = "generating", !.modelCalls = @ + 1]]
    /\ UNCHANGED <<liveVars, staticVars, serverVars, processVars, uiVars>>

\* The generation service returns its text (lines 181-225).
GenerateContentResolve(a) ==
    /\ analyses[a].pc = "generating"
    /\ \E text \in AnalysisResponses :
        analyses' = [analyses EXCEPT ![a] =
            [Analyzed(@, AnalysisOutcomes[analyses[a].file][text])
                EXCEPT !.answered = TRUE, !.answer = text]]
    /\ UNCHANGED <<liveVars, staticVars, serverVars, processVars, uiVars>>

\* The generation service rejects (lines 227-237).
GenerateContentReject(a) ==
    /\ analyses[a].pc = "generating"
    /\ analyses' = [analyses EXCEPT ![a] = Analyzed(@, AnalysisFailure("Model call failed"))]
    /\ UNCHANGED <<liveVars, staticVars, serverVars, processVars, uiVars>>

SummarizerNext ==
    \E a \in Analyses :
        \/ AnalyzeMultimedia(a)
        \/ ValidateMultimediaFile(a)
        \/ GenerateContentResolve(a)
        \/ GenerateContentReject(a)

(***************************************************************************)
(* The upload page: src/Frontend/src/components/FileUploadAnalyzer.jsx     *)
(***************************************************************************)
\* Line 208: maxSize of validateFile.
MaxUploadSize == 20971520

\* A File of the browser: its name, its MIME type as <<type, subtype>>, its
\* size.  NoSelection is the null of the file state.
NoSelection == [name |-> "", type |-> <<>>, size |-> 0]
SelectableFiles ==
    { [name |-> "ad.mp4", type |-> <<"video", "mp4">>, size |-> 2048],
      [name |-> "ad.avi", type |-> <<"video", "x-msvideo">>, size |-> 2048],
      [name |-> "notes.txt", type |-> <<"text", "plain">>, size |-> 2048],
      [name |-> "long.mp4", type |-> <<"video", "mp4">>, size |-> MaxUploadSize + 1] }

\* validateFile (lines 207-220); "" is null.
ValidateFile(file) ==
    IF file.size > MaxUploadSize THEN "File size must be less than 20MB"
    ELSE IF file.type[1] \notin {"video", "image"} THEN "Only video and image files are allowed"
    ELSE ""

\* req.file as multer leaves the file of the form (server.js lines 48-68).
Uploaded(file) == CHOOSE u \in UploadedFiles : u.originalname = file.name

\* Line 308: the endpoint of the selected policy source.
Endpoint(policySource) ==
    IF policySource = "live" THEN "/summarize-dynamic" ELSE "/summarize"

\* server.js lines 351-358: the answer to a route the server does not have.
RouteNotFoundResponse ==
    Response(404, Body(<<Member(<<"success">>, JBool(FALSE)),
                         Member(<<"message">>, Str("Route not found")),
                         Member(<<"error">>, Str("ROUTE_NOT_FOUND")),
                         Member(<<"timestamp">>, Timestamp)>>))

\* response.ok
ResponseOk(response) == response.status \in 200..299

\* The component as mounted.  endpoint is that of the fetch in flight (""
\* when there is none) and request the /summarize request it became (0 for
\* another route).  sent, shownFor and shownRequest are history: the
\* file the fetch in flight was sent with, and the file and the request
\* that analysisResult came from.
NewPage ==
    [file |-> NoSelection, error |-> "", analysisResult |-> JNull,
     isAnalyzing |-> FALSE, policySource |-> "live",
     endpoint |-> "", request |-> 0, sent |-> NoSelection,
     shownFor |-> NoSelection, shownRequest |-> 0]

\* Line 588: the condition under which the result card is rendered.
ResultShown(p) == Truthy(p.analysisResult) /\ ~p.isAnalyzing
\* Line 603: the condition under which the Policy Check panel is rendered.
PolicyCheckShown(p) ==
    ResultShown(p) /\ Truthy(Prop(p.analysisResult, <<"success">>))
\* Lines 672-676: the label of the status chip of the Policy Check panel.
PolicyStatusLabel(analysisResult) ==
    IF Truthy(Prop(Prop(analysisResult, <<"policyCheck">>), <<"violated">>))
    THEN "Policy Violated"
    ELSE "Policy Compliant"

\* A file is dropped or chosen (lines 223-241, 254-270).
HandleFileSelect ==
    /\ \E selectedFile \in SelectableFiles :
        LET validationError == ValidateFile(selectedFile) IN
        page' = IF validationError # ""
                THEN [page EXCEPT !.error = validationError]
                ELSE [page EXCEPT !.file = selectedFile, !.error = "",
                                  !.analysisResult = JNull,
                                  !.shownFor = NoSelection, !.shownRequest = 0]
    /\ UNCHANGED <<liveVars, staticVars, serverVars, summarizerVars, processVars>>

\* The Remove File button, rendered while a file is selected (lines 273-283).
HandleRemoveFile ==
    /\ page.file # NoSelection
    /\ page' = [page EXCEPT !.file = NoSelection, !.error = "",
                            !.analysisResult = JNull,
                            !.shownFor = NoSelection, !.shownRequest = 0]
    /\ UNCHANGED <<liveVars, staticVars, serverVars, summarizerVars, processVars>>

\* The Standard and Live switches (lines 380, 390).
SetPolicySource ==
    /\ \E source \in {"standard", "live"} :
        /\ source # page.policySource
        /\ page' = [page EXCEPT !.policySource = source]
    /\ UNCHANGED <<liveVars, staticVars, serverVars, summarizerVars, processVars>>

\* The Analyze button, enabled while a file is selected and no analysis runs
\* (line 548): handleAnalyze up to its await (lines 296-313), and the handler
\* of the route entered by the request (server.js lines 183-226).
HandleAnalyze ==
    /\ page.file # NoSelection
    /\ ~page.isAnalyzing
    /\ LET endpoint == Endpoint(page.policySource)
           started == [page EXCEPT !.isAnalyzing = TRUE, !.error = "",
                                   !.endpoint = endpoint, !.sent = page.file]
       IN
       IF endpoint = "/summarize"
       THEN \E r \in Requests :
               /\ requests[r].pc = "new"
               /\ \A q \in Requests : q < r => requests[q].pc # "new"
               /\ requests' = [requests EXCEPT ![r] =
                       EnterSummarize(@, Uploaded(page.file))]
               /\ page' = [started EXCEPT !.request = r]
       ELSE /\ page' = [started EXCEPT !.request = 0]
            /\ UNCHANGED requests
    /\ UNCHANGED <<liveVars, staticVars, summarizerVars, processVars>>

\* The fetch in flight has its response (lines 315-325).
PageFetchResolve ==
    /\ page.endpoint # ""
    /\ page.request # 0 => requests[page.request].pc = "responded"
    /\ LET response == IF page.request = 0 THEN RouteNotFoundResponse
                       ELSE requests[page.request].responses[1]
           settled == [page EXCEPT !.isAnalyzing = FALSE, !.endpoint = "",
                                   !.request = 0, !.sent = NoSelection]
       IN
       page' = IF ResponseOk(response)
               THEN [settled EXCEPT !.analysisResult = response.body,
                                    !.shownFor = page.sent,
                                    !.shownRequest = page.request]
               ELSE [settled EXCEPT !.error = "API Error"]
    /\ UNCHANGED <<liveVars, staticVars, serverVars, summarizerVars, processVars>>

\* The fetch in flight rejects: the network fails (lines 321-325).
PageFetchReject ==
    /\ page.endpoint # ""
    /\ page' = [page EXCEPT !.isAnalyzing = FALSE, !.endpoint = "",
                            !.request = 0, !.sent = NoSelection,
                            !.error = "Failed to fetch"]
    /\ UNCHANGED <<liveVars, staticVars, serverVars, summarizerVars, processVars>>

\* The page, and the server working on the requests the page sent.
UiNext ==
    \/ HandleFileSelect
    \/ HandleRemoveFile
    \/ SetPolicySource
    \/ HandleAnalyze
    \/ PageFetchResolve
    \/ PageFetchReject
    \/ \E r \in Requests :
        \/ FileChecked(r)
        \/ SummaryResolve(r)
        \/ SummaryReject(r)
        \/ PolicyFileResolve(r)
        \/ PolicyFileReject(r)
        \/ EvaluationResolve(r)
        \/ EvaluationReject(r)

(***************************************************************************)
(* Claims about the policy cache of the live checker (under SpecLive)      *)
(***************************************************************************)
ReachedGetPolicies(c) == InProgress(c) \/ calls[c].got # "none"
\* Two getPolicies calls that were in progress at the same time, both
\* having found the cache empty.
OverlapOnEmptyCache(c, d) ==
    /\ c # d
    /\ d \in calls[c].overlap
    /\ calls[c].emptyAtStart
    /\ calls[d].emptyAtStart

\* C1: two getPolicies calls that overlap while the cache is empty perform
\* one policy-page fetch and at most one extraction model call in total.
C1_OverlappingCallsFetchOnce ==
    \A c, d \in Calls :
        OverlapOnEmptyCache(c, d) =>
            /\ calls[c].fetches + calls[d].fetches = 1
            /\ calls[c].extracts + calls[d].extracts <= 1

\* C2: overlapping getPolicies calls on an empty cache that all succeed
\* receive the same PolicySet, which is the one left in the cache.
C2_OverlappingCallersGetSameSet ==
    \A c, d \in Calls :
        (OverlapOnEmptyCache(c, d) /\ calls[c].got = "returned" /\ calls[d].got = "returned") =>
            /\ calls[c].policies = calls[d].policies
            /\ (\A e \in Calls : ~InProgress(e)) => cachedPolicies = calls[c].policies

\* C3: a getPolicies call made after a getPolicies call has returned
\* performs no fetch and no extraction, whatever value was extracted.
C3_SecondCallPerformsNoFetch ==
    \A c \in Calls :
        (ReachedGetPolicies(c) /\ calls[c].afterSuccess) =>
            calls[c].fetches = 0 /\ calls[c].extracts = 0

\* C4: a failed or abandoned fetch or extraction leaves the cache as it
\* was: cachedPolicies only ever holds a value extractPoliciesWithClaude
\* returned, it is empty as long as no getPolicies call has returned, and a
\* getPolicies call made before any has returned fetches again.
C4_FailureLeavesCacheEmpty ==
    /\ cachedPolicies = JNull \/ cachedPolicies \in extracted
    /\ ~SomeReturned => cachedPolicies = JNull
    /\ \A c \in Calls :
        (ReachedGetPolicies(c) /\ ~calls[c].afterSuccess) =>
            calls[c].emptyAtStart /\ calls[c].fetches = 1

\* An extraction that failed on an un-parseable answer, and a later call,
\* started after that failure, that is fetching again on the empty cache.
C4_Witness ==
    \E c, d \in Calls :
        /\ c # d
        /\ calls[c].got = "threw" /\ calls[c].extracts = 1
        /\ c \notin calls[d].overlap /\ d \notin calls[c].overlap
        /\ InProgress(d) /\ calls[d].fetches = 1
        /\ cachedPolicies = JNull

(***************************************************************************)
(* Claims about the /summarize pipeline (under SpecServer)                 *)
(***************************************************************************)
StageOrder == <<"Received", "Summarizing", "Summarized", "Evaluating">>
TerminalStages == {"Completed", "CompletedWithEvaluationDegraded", "SummarizationFailed"}
IsPrefix(s, t) == Len(s) <= Len(t) /\ s = SubSeq(t, 1, Len(s))

\* The request came with a file: it entered the pipeline.
InPipeline(r) == requests[r].pc # "new" /\ requests[r].file # NoFile
SummarizationRunning(r) == requests[r].pc \in {"validating", "summarizing"}
EvaluationRunning(r) == requests[r].pc \in {"loadingPolicy", "evaluating"}
SummarizationSucceeded(r) ==
    Prop(requests[r].analysis, <<"success">>) = JBool(TRUE)
SummarizationFailed(r) ==
    Prop(requests[r].analysis, <<"success">>) = JBool(FALSE)
\* The policy stage ended without a verdict: loadPolicyFile threw, or
\* checkPolicy returned success false.
PolicyStageFailed(r) ==
    \/ requests[r].policy.t = "error"
    \/ Prop(requests[r].policy, <<"success">>) = JBool(FALSE)
TheResponse(r) == requests[r].responses[1]
KeysOf(v) == { v.o[i].k : i \in 1..Len(v.o) }

\* C5: every request that enters the pipeline goes through Received,
\* Summarizing, Summarized, Evaluating in this order and then one terminal
\* stage.  No policy file read and no evaluation model call is issued
\* before summarization returned success; while summarization runs, none
\* has been issued, and while the policy stage runs summarization is over
\* with its one model call made.  A request sends no response before its
\* terminal stage and exactly one at it: Completed, degraded, or
\* summarization failure.
C5_StagesInOrderOneOutcome ==
    \A r \in Requests :
        InPipeline(r) =>
            LET req == requests[r]
                n == Len(req.stages)
            IN
            /\ req.loads <= 1 /\ req.evals <= req.loads /\ req.sumCalls <= 1
            /\ (req.loads > 0 \/ req.evals > 0) =>
                    SummarizationSucceeded(r) /\ req.sumCalls = 1
            /\ SummarizationRunning(r) =>
                    /\ req.loads = 0 /\ req.evals = 0
                    /\ req.analysis = Undefined
                    /\ req.stages = SubSeq(StageOrder, 1, 2)
            /\ EvaluationRunning(r) =>
                    /\ SummarizationSucceeded(r)
                    /\ req.stages = StageOrder
            /\ req.pc # "responded" =>
                    /\ req.responses = <<>>
                    /\ IsPrefix(req.stages, StageOrder)
            /\ req.pc = "responded" =>
                    /\ Len(req.responses) = 1
                    /\ req.stages[n] \in TerminalStages
                    /\ IsPrefix(SubSeq(req.stages, 1, n - 1), StageOrder)
                    /\ req.stages[n] = "SummarizationFailed" <=> n = 3
                    /\ req.stages[n] # "SummarizationFailed" <=> n = 5
                    /\ req.stages[n] = "SummarizationFailed" <=> SummarizationFailed(r)
                    /\ req.stages[n] = "Completed" <=>
                            Prop(req.policy, <<"success">>) = JBool(TRUE)
                    /\ req.stages[n] = "CompletedWithEvaluationDegraded" <=>
                            PolicyStageFailed(r)

\* One request answered with the verdict after all four stages, while
\* another has its evaluation model call in flight.
C5_Witness ==
    \E r, q \in Requests :
        /\ requests[r].pc = "responded"
        /\ requests[r].stages = StageOrder \o <<"Completed">>
        /\ requests[r].sumCalls = 1 /\ requests[r].loads = 1 /\ requests[r].evals = 1
        /\ requests[q].pc = "evaluating"

\* C6: a request whose summarization succeeded and whose policy stage
\* failed (the policy file could not be read or is blank, the summary was
\* refused, the model call failed, its answer had no parseable JSON or the
\* wrong shape) is answered with success true, with the summary, keyPoints
\* and fileMetadata of the analysis, and with a policyCheck that has the
\* members error = "Policy analysis failed" and details and no other.
C6_DegradedKeepsAnalysis ==
    \A r \in Requests :
        (requests[r].pc = "responded" /\ SummarizationSucceeded(r) /\ PolicyStageFailed(r)) =>
            LET body == TheResponse(r).body
                data == Prop(requests[r].analysis, <<"data">>)
                analysis == Prop(body, <<"analysis">>)
                policyCheck == Prop(body, <<"policyCheck">>)
            IN
            /\ Len(requests[r].responses) = 1
            /\ Prop(body, <<"success">>) = JBool(TRUE)
            /\ analysis.t = "obj"
            /\ \A k \in {<<"summary">>, <<"keyPoints">>, <<"fileMetadata">>} :
                    Prop(analysis, k) = PropOf(data, k)
            /\ Prop(analysis, <<"fileMetadata">>) = FileMetadata(requests[r].file)
            /\ policyCheck.t = "obj"
            /\ KeysOf(policyCheck) = {<<"error">>, <<"details">>}
            /\ Prop(policyCheck, <<"error">>) = Str("Policy analysis failed")
            /\ Prop(policyCheck, <<"details">>).t = "str"

\* A summarized request whose evaluation answer was not a valid verdict,
\* answered with the summary and the error block.
C6_Witness ==
    \E r \in Requests :
        /\ requests[r].pc = "responded"
        /\ SummarizationSucceeded(r)
        /\ requests[r].evals = 1
        /\ Prop(requests[r].policy, <<"success">>) = JBool(FALSE)
        /\ Prop(Prop(TheResponse(r).body, <<"analysis">>), <<"summary">>)
                = JStr(<<"Guaranteed", " ", "returns">>)
        /\ Prop(Prop(TheResponse(r).body, <<"policyCheck">>), <<"error">>)
                = Str("Policy analysis failed")

\* C7: a request whose summarization failed has read no policy file and
\* made no evaluation model call, and is answered with success false and
\* a fileInfo of originalName, filename, fileSize, fileType and uploadDate
\* of the uploaded file.
C7_SummarizationFailureStops ==
    \A r \in Requests :
        SummarizationFailed(r) =>
            LET body == TheResponse(r).body IN
            /\ requests[r].loads = 0 /\ requests[r].evals = 0
            /\ requests[r].policy = Undefined
            /\ requests[r].pc = "responded"
            /\ Len(requests[r].responses) = 1
            /\ Prop(body, <<"success">>) = JBool(FALSE)
            /\ Prop(body, <<"analysis">>) = Undefined
            /\ Prop(body, <<"policyCheck">>) = Undefined
            /\ Prop(body, <<"fileInfo">>) = FileInfo(requests[r].file)
            /\ KeysOf(Prop(body, <<"fileInfo">>)) =
                    {<<"originalName">>, <<"filename">>, <<"fileSize">>,
                     <<"fileType">>, <<"uploadDate">>}

\* A request whose summarization model call was made and failed, answered
\* with status 500.
C7_Witness ==
    \E r \in Requests :
        /\ SummarizationFailed(r)
        /\ requests[r].sumCalls = 1
        /\ requests[r].pc = "responded"
        /\ TheResponse(r).status = 500

(***************************************************************************)
(* Claims about the evaluators (under SpecStatic and SpecLive)             *)
(***************************************************************************)
Succeeded(k) ==
    /\ checks[k].pc = "done" /\ checks[k].kind = "checkPolicy"
    /\ Prop(checks[k].result, <<"success">>) = JBool(TRUE)
Failed(k) ==
    /\ checks[k].pc = "done" /\ checks[k].kind = "checkPolicy"
    /\ Prop(checks[k].result, <<"success">>) = JBool(FALSE)
Data(k) == Prop(checks[k].result, <<"data">>)

\* C8: every result of checkPolicy with success true has violated false
\* exactly when its violations array is empty.
C8_ViolatedIffViolations ==
    \A k \in Checks :
        Succeeded(k) =>
            (Prop(Data(k), <<"violated">>) = JBool(FALSE)
                <=> Prop(Data(k), <<"violations">>) = JArr(<<>>))

\* Some part of the text, taken alone, parses as a JSON object.
ContainsJsonObject(text) ==
    \E i \in 1..Len(text) : \E j \in i..Len(text) :
        LET parsed == JsonParse(SubSeq(text, i, j)) IN parsed.ok /\ parsed.v.t = "obj"

\* The compliance result reports an error, as the catch of
\* checkAdCompliance builds it.
ReportsError(result) == Prop(Prop(result, <<"details">>), <<"error">>) # Undefined

\* C9: a compliance evaluation whose model answer contains no parseable
\* JSON object ends with an error, never with a verdict.
C9_NoObjectNoVerdict ==
    \A c \in Calls :
        (calls[c].pc = "done" /\ calls[c].answered /\ ~ContainsJsonObject(calls[c].answer)) =>
            ReportsError(calls[c].result)

\* Present, not null and not the empty string.
NonEmpty(v) == v.t \notin {"undefined", "null"} /\ v # JStr(<<>>)
WellShapedViolation(v) ==
    /\ NonEmpty(Prop(v, <<"category">>))
    /\ NonEmpty(Prop(v, <<"description">>))
    /\ Prop(v, <<"severity">>) \in {Str("high"), Str("medium"), Str("low")}
WellShaped(v) ==
    /\ Prop(v, <<"violated">>).t = "bool"
    /\ Prop(v, <<"violations">>).t = "arr"
    /\ \A i \in 1..Len(Prop(v, <<"violations">>).a) :
            WellShapedViolation(Prop(v, <<"violations">>).a[i])

\* C10: checkPolicy returns success true only with data that has a boolean
\* violated, an array violations, and in every violation a non-empty
\* category, a non-empty description and a severity among high, medium and
\* low; a model answer whose parsed value has any other shape, or that
\* does not parse, gives success false with an error and no data.
C10_SuccessOnlyWellShaped ==
    \A k \in Checks :
        /\ Succeeded(k) =>
                /\ checks[k].answered
                /\ ParseAnalysis(checks[k].answer).ok
                /\ Data(k) = ParseAnalysis(checks[k].answer).v
                /\ WellShaped(Data(k))
        /\ (checks[k].pc = "done" /\ checks[k].kind = "checkPolicy" /\ checks[k].answered
                /\ ~(ParseAnalysis(checks[k].answer).ok
                        /\ WellShaped(ParseAnalysis(checks[k].answer).v))) =>
                /\ Failed(k)
                /\ Prop(checks[k].result, <<"error">>).t = "str"
                /\ Data(k) = Undefined

\* One check that succeeded with a violation of a valid severity, and one
\* whose answer parsed to a violation of another severity and failed.
C10_Witness ==
    \E k, j \in Checks :
        /\ Succeeded(k)
        /\ Prop(Data(k), <<"violations">>) = JArr(<<GoodViolation>>)
        /\ Failed(j)
        /\ checks[j].answered
        /\ ParseAnalysis(checks[j].answer).ok
        /\ Prop(ParseAnalysis(checks[j].answer).v, <<"violations">>)
                = JArr(<<Violation(Str("c"), Str("d"), Str("critical"))>>)

(***************************************************************************)
(* Claims about the summarizer (under SpecSummarizer)                      *)
(***************************************************************************)
AnalysisOk(a) == Prop(analyses[a].result, <<"success">>) = JBool(TRUE)
AnalysisFailed(a) == Prop(analyses[a].result, <<"success">>) = JBool(FALSE)
AnalysisData(a) == Prop(analyses[a].result, <<"data">>)
SentinelKeyPoints == JArr(<<Str("Raw analysis response provided")>>)

\* C11: once the generation service has returned text, analyzeMultimedia
\* returns success true whatever that text is; and when the text is not
\* JSON and no part of it parses as an object, the summary is the trimmed
\* text and keyPoints is the one sentinel entry.
C11_FormatNeverFails ==
    \A a \in Analyses :
        analyses[a].answered =>
            /\ AnalysisOk(a)
            /\ (~JsonParse(analyses[a].answer).ok /\ ~ContainsJsonObject(analyses[a].answer)) =>
                    /\ PropOf(AnalysisData(a), <<"summary">>) = JStr(Trim(analyses[a].answer))
                    /\ PropOf(AnalysisData(a), <<"keyPoints">>) = SentinelKeyPoints

\* C12: every result of analyzeMultimedia with success true has a summary
\* that is a non-empty string and a keyPoints that is a non-empty array.
C12_SuccessHasSummaryAndKeyPoints ==
    \A a \in Analyses :
        AnalysisOk(a) =>
            LET summary == PropOf(AnalysisData(a), <<"summary">>)
                keyPoints == PropOf(AnalysisData(a), <<"keyPoints">>)
            IN
            /\ summary.t = "str" /\ summary.s # <<>>
            /\ keyPoints.t = "arr" /\ keyPoints.a # <<>>

\* The invocation's prompt is empty or longer than 1000 characters.
PromptRefused(a) ==
    analyses[a].promptLength = 0 \/ analyses[a].promptLength > MaxPromptLength
\* The invocation's file is larger than the limit or of no supported type.
FileRefused(a) ==
    \/ analyses[a].file.size > MaxFileSize
    \/ MimeLookup(analyses[a].file.ext) \notin SupportedVideoFormats \cup SupportedImageFormats
\* The file system said the file is missing or is not a regular file.
FileAbsent(a) == analyses[a].checked /\ (~analyses[a].exists \/ ~analyses[a].isFile)

\* C18: an invocation of analyzeMultimedia whose prompt is empty or longer
\* than 1000 characters, or whose file is missing, not a regular file,
\* larger than the limit or of an unsupported type, never calls the
\* generation service, and what it returns is a failure.
C18_InvalidInputNoModelCall ==
    \A a \in Analyses :
        (analyses[a].pc # "new" /\ (PromptRefused(a) \/ FileRefused(a) \/ FileAbsent(a))) =>
            /\ analyses[a].modelCalls = 0
            /\ analyses[a].pc # "generating"
            /\ ~AnalysisOk(a)
            /\ analyses[a].pc = "done" => AnalysisFailed(a)
            /\ (PromptRefused(a) \/ analyses[a].checked) => analyses[a].pc = "done"

\* One invocation refused for a file over the size limit and one for a
\* prompt of 1001 characters, neither with a model call.
C18_Witness ==
    \E a, b \in Analyses :
        /\ analyses[a].pc = "done" /\ AnalysisFailed(a)
        /\ analyses[a].checked /\ analyses[a].exists /\ analyses[a].isFile
        /\ analyses[a].file = MediaFile("mp4", MaxFileSize + 1)
        /\ analyses[a].modelCalls = 0
        /\ analyses[b].pc = "done" /\ AnalysisFailed(b)
        /\ analyses[b].promptLength = MaxPromptLength + 1
        /\ analyses[b].modelCalls = 0

(***************************************************************************)
(* Claims about policy loading and input validation                        *)
(***************************************************************************)
\* C13: no invocation on the static checker makes its evaluation model
\* call with a policy text that is blank after trimming.
C13_NoEvaluationOnBlankPolicy ==
    \A k \in Checks :
        checks[k].evals > 0 =>
            /\ checks[k].promptPolicy.t = "str"
            /\ Trim(checks[k].promptPolicy.s) # <<>>

\* The two attempts of the extraction on an answer: the parse of the
\* cleaned text, and the parse of its region from the first [ to the last ].
DirectParse(text) == JsonParse(CleanText(text))
BracketRegion(text) == GreedyMatch(CleanText(text), "[", "]")
RecoveredParse(text) == JsonParse(CleanNoTrim(BracketRegion(text).text))
Recovers(text) == BracketRegion(text).found /\ RecoveredParse(text).ok

\* C14: an extraction whose model call returned text either returns what
\* one of the two attempts parsed, the direct parse first, or throws; when
\* neither attempt parses it throws and returns no policy set.
C14_ExtractionParsesOrThrows ==
    \A c \in Calls :
        calls[c].extractAnswered =>
            LET text == calls[c].extractAnswer IN
            /\ calls[c].got \in {"returned", "threw"}
            /\ DirectParse(text).ok =>
                    calls[c].got = "returned" /\ calls[c].policies = DirectParse(text).v
            /\ (~DirectParse(text).ok /\ Recovers(text)) =>
                    calls[c].got = "returned" /\ calls[c].policies = RecoveredParse(text).v
            /\ (~DirectParse(text).ok /\ ~Recovers(text)) =>
                    calls[c].got = "threw" /\ calls[c].policies = Undefined

\* One extraction that threw on an answer without JSON, and one that
\* returned the array recovered from an answer wrapped in prose.
C14_Witness ==
    \E c, d \in Calls :
        /\ calls[c].extractAnswered /\ calls[c].extractAnswer = <<"Sorry">>
        /\ calls[c].got = "threw"
        /\ calls[d].extractAnswered /\ ~DirectParse(calls[d].extractAnswer).ok
        /\ calls[d].got = "returned" /\ calls[d].policies = JArr(<<PolicyB>>)

IsPolicySet(v) ==
    /\ v.t = "arr"
    /\ v.a # <<>>
    /\ \A i \in 1..Len(v.a) : v.a[i].t = "obj"

\* C15: what getPolicies returns, what the cache holds once it is filled,
\* and what is passed to the compliance evaluation is a non-empty array of
\* policy items.
C15_PolicySetNonEmpty ==
    /\ \A v \in extracted : IsPolicySet(v)
    /\ cachedPolicies # JNull => IsPolicySet(cachedPolicies)
    /\ \A c \in Calls : calls[c].got = "returned" => IsPolicySet(calls[c].policies)

\* C16: no extraction model call is in flight for a page whose extracted
\* text is empty.
C16_EmptyPageNoExtraction ==
    \A c \in Calls : calls[c].pc = "extracting" => calls[c].content # <<>>

\* C17 (live evaluator): no fetch and no model call is in flight for an
\* ad summary that is not a string, is blank after trimming, or is longer
\* than 10,000 characters.
C17_RefusedSummaryNoCall ==
    \A c \in Calls :
        (calls[c].kind = "checkAdCompliance"
            /\ calls[c].pc \in {"fetching", "extracting", "evaluating"}) =>
            /\ calls[c].adSummary.t = "str"
            /\ Trim(calls[c].adSummary.s) # <<>>
            /\ StrLength(calls[c].adSummary.s) <= MaxSummaryLength

(***************************************************************************)
(* Claims about what the parsers preserve and recover                      *)
(***************************************************************************)
SummaryJson(r) == JsonParse(requests[r].summaryAnswer)
EvalJson(r) == JsonParse(requests[r].evalAnswer)
\* The model's answer is well-formed JSON, an object.
SummaryIsJsonObject(r) ==
    requests[r].summaryAnswered /\ SummaryJson(r).ok /\ SummaryJson(r).v.t = "obj"
EvalIsJsonObject(r) ==
    requests[r].evalAnswered /\ EvalJson(r).ok /\ EvalJson(r).v.t = "obj"
PolicyData(r) == Prop(requests[r].policy, <<"data">>)

\* C19: when the summarization model's answer is a well-formed JSON
\* object, analyzeMultimedia succeeds and its data has the summary and the
\* keyPoints of that object, unchanged and in the same order; when the
\* evaluation model's answer is a well-formed JSON object, checkPolicy
\* succeeds if the object has the verdict's shape, and whenever it succeeds
\* its data has the violated, violations and reasoning of that object,
\* unchanged and in the same order; the response carries the same values.
C19_FieldsRoundTrip ==
    \A r \in Requests :
        /\ SummaryIsJsonObject(r) =>
            LET data == Prop(requests[r].analysis, <<"data">>) IN
            /\ SummarizationSucceeded(r)
            /\ \A k \in {<<"summary">>, <<"keyPoints">>} :
                    Prop(data, k) = Prop(SummaryJson(r).v, k)
        /\ EvalIsJsonObject(r) =>
            /\ WellShaped(EvalJson(r).v) =>
                    Prop(requests[r].policy, <<"success">>) = JBool(TRUE)
            /\ Prop(requests[r].policy, <<"success">>) = JBool(TRUE) =>
                    \A k \in {<<"violated">>, <<"violations">>, <<"reasoning">>} :
                        Prop(PolicyData(r), k) = Prop(EvalJson(r).v, k)
        /\ (SummaryIsJsonObject(r) /\ EvalIsJsonObject(r)
                /\ requests[r].pc = "responded"
                /\ Prop(requests[r].policy, <<"success">>) = JBool(TRUE)) =>
            LET body == TheResponse(r).body IN
            /\ \A k \in {<<"summary">>, <<"keyPoints">>} :
                    Prop(Prop(body, <<"analysis">>), k) = Prop(SummaryJson(r).v, k)
            /\ \A k \in {<<"violated">>, <<"violations">>, <<"reasoning">>} :
                    Prop(Prop(body, <<"policyCheck">>), k) = Prop(EvalJson(r).v, k)

\* A request answered with the two key points of the summary answer and
\* the two violations of the evaluation answer, in their order.
C19_Witness ==
    \E r \in Requests :
        /\ requests[r].pc = "responded"
        /\ SummaryIsJsonObject(r) /\ EvalIsJsonObject(r)
        /\ Prop(Prop(TheResponse(r).body, <<"analysis">>), <<"keyPoints">>)
                = JArr(<<Str("NoRisk"), Str("Deadline")>>)
        /\ Prop(Prop(TheResponse(r).body, <<"policyCheck">>), <<"violations">>)
                = JArr(<<LowViolation, GoodViolation>>)

\* C20: an evaluation answer that is a JSON object inside prose gives the
\* result that the bare object gives.
C20_ProseWrappingRecovered ==
    \A k \in Checks :
        checks[k].answered =>
            \A w \in ProseWrappings, v \in WrappedValues :
                checks[k].answer = Wrapped(w, v) =>
                    checks[k].result = CheckPolicyAnswer(Stringify(v))

(***************************************************************************)
(* Further claims about the static checker (under SpecStatic)              *)
(***************************************************************************)
\* C25: checkPolicy(summary) with no path and a valid summary reads the
\* default policy file when the checker holds no policy and then evaluates;
\* when the checker holds a policy it evaluates without reading any file.
C25_OmittedPathLoadsDefault ==
    \A k \in Checks :
        (/\ checks[k].kind = "checkPolicy"
         /\ checks[k].policyFilePath = JNull
         /\ ValidateInput(checks[k].summary).ok) =>
            IF checks[k].heldPolicy
            THEN checks[k].loads = 0 /\ checks[k].evals = 1
            ELSE checks[k].loads = 1

(***************************************************************************)
(* Further claims about the summarizer (under SpecSummarizer)              *)
(***************************************************************************)
\* C24: the fileMetadata of every successful analysis is the one built from
\* the validated file; a fileMetadata member of the model's answer is
\* overwritten.
C24_FileMetadataFromFile ==
    \A a \in Analyses :
        AnalysisOk(a) =>
            PropOf(AnalysisData(a), <<"fileMetadata">>) = FileMetadata(analyses[a].file)

\* A successful analysis whose model answer carried a fileMetadata of its own.
C24_Witness ==
    \E a \in Analyses :
        /\ AnalysisOk(a)
        /\ analyses[a].answered
        /\ Prop(ParseSummary(analyses[a].answer), <<"fileMetadata">>) # Undefined
        /\ Prop(ParseSummary(analyses[a].answer), <<"fileMetadata">>) # FileMetadata(analyses[a].file)

(***************************************************************************)
(* Further claims about the live checker (under SpecLive)                  *)
(***************************************************************************)
\* C22: once a policy set is stored in cachedPolicies, no step replaces or
\* clears it: under any interleaving the set stored first stays.
C22_StoredSetNeverReplaced ==
    [][CacheHit(cachedPolicies) => cachedPolicies' = cachedPolicies]_vars

\* A finished checkAdCompliance call, and the ways it can have failed: the
\* argument was refused, getPolicies threw (fetch or extraction), the
\* compliance model call rejected, its answer did not parse, or reading
\* the parsed value threw.
CheckFinished(c) == calls[c].kind = "checkAdCompliance" /\ calls[c].pc = "done"
ComplianceParses == [r \in ComplianceResponses \cup {<<>>} |-> CheckComplianceParse(r)]
ParsedAnswer(c) == ComplianceParses[calls[c].answer]
CheckFailed(c) ==
    \/ calls[c].got # "returned"
    \/ ~calls[c].answered
    \/ ~ParsedAnswer(c).ok
    \/ ParsedAnswer(c).v = JNull

\* C26: checkAdCompliance always returns an object with exactly the fields
\* compliant, violatedPolicies and details; when the fetch, the extraction,
\* the model call or the parsing failed, compliant is false,
\* violatedPolicies is empty and details.error is the message.
C26_AlwaysReturnsThreeFields ==
    \A c \in Calls :
        CheckFinished(c) =>
            /\ calls[c].result.t = "obj"
            /\ KeysOf(calls[c].result) = {<<"compliant">>, <<"violatedPolicies">>, <<"details">>}
            /\ CheckFailed(c) =>
                /\ Prop(calls[c].result, <<"compliant">>) = JBool(FALSE)
                /\ Prop(calls[c].result, <<"violatedPolicies">>) = JArr(<<>>)
                /\ Prop(Prop(calls[c].result, <<"details">>), <<"error">>).t = "str"
                /\ Truthy(Prop(Prop(calls[c].result, <<"details">>), <<"error">>))

\* One call failed in the extraction after a fetch, and one was answered
\* by the compliance model with a value that is no object.
C26_Witness ==
    \E c, d \in Calls :
        /\ CheckFinished(c) /\ calls[c].got = "threw" /\ calls[c].extracts = 1
        /\ CheckFinished(d) /\ calls[d].answered
        /\ ParsedAnswer(d).ok /\ ParsedAnswer(d).v.t = "num"

\* C28: the result has compliant = true only when the compliance model's
\* answer was parsed and its compliant field was true; a missing compliant
\* field, a parse failure or any other error gives compliant = false.
C28_CompliantOnlyWhenParsedTrue ==
    \A c \in Calls :
        CheckFinished(c) =>
            /\ Prop(calls[c].result, <<"compliant">>) = JBool(TRUE) =>
                /\ ~CheckFailed(c)
                /\ Prop(ParsedAnswer(c).v, <<"compliant">>) = JBool(TRUE)
            /\ (CheckFailed(c) \/ Prop(ParsedAnswer(c).v, <<"compliant">>) = Undefined) =>
                Prop(calls[c].result, <<"compliant">>) = JBool(FALSE)

\* One call answered with an object that has no compliant field, and one
\* answered with compliant = true.
C28_Witness ==
    \E c, d \in Calls :
        /\ CheckFinished(c) /\ ~CheckFailed(c)
        /\ ParsedAnswer(c).v.t = "obj"
        /\ Prop(ParsedAnswer(c).v, <<"compliant">>) = Undefined
        /\ CheckFinished(d) /\ ~CheckFailed(d)
        /\ Prop(calls[d].result, <<"compliant">>) = JBool(TRUE)

\* C29: when the extraction model answers with a well-formed JSON array,
\* extractPoliciesWithClaude returns the items of that array, escaped
\* newlines, tabs and carriage returns in its strings included.
C29_SanitizationKeepsParseable ==
    \A c \in Calls :
        (calls[c].extractAnswered
         /\ JsonParse(calls[c].extractAnswer).ok
         /\ JsonParse(calls[c].extractAnswer).v.t = "arr") =>
            /\ calls[c].got = "returned"
            /\ calls[c].policies = JsonParse(calls[c].extractAnswer).v

(***************************************************************************)
(* Claims about the module functions of the live checker (SpecProcess)     *)
(***************************************************************************)
\* C21: once a compliance check of the process has extracted the policy
\* set, a later check made through checkMetaAdsCompliance or on a newly
\* created checker reuses it: it performs no fetch and no extraction.
C21_LaterCheckReusesProcessCache ==
    \A k \in Checkers :
        checkers[k].afterExtraction =>
            checkers[k].fetches = 0 /\ checkers[k].extracts = 0

(***************************************************************************)
(* Termination of the /summarize handler (under SpecServerFair)            *)
(***************************************************************************)
\* C23: every outbound call is bounded by a timeout, so every request that
\* entered the handler reaches its response even if a remote service never
\* answers.
C23_EveryRequestTerminates ==
    \A r \in Requests :
        (requests[r].pc # "new") ~> (requests[r].pc = "responded")

(***************************************************************************)
(* Claims about the upload page (under SpecUi)                             *)
(***************************************************************************)
\* C27: the page shows "Policy Compliant" only for the result of a request
\* whose policy evaluation succeeded with violated = false; a degraded
\* result is never shown as compliant.
C27_CompliantOnlyOnVerdict ==
    (PolicyCheckShown(page) /\ PolicyStatusLabel(page.analysisResult) = "Policy Compliant") =>
        /\ page.shownRequest # 0
        /\ LET policy == requests[page.shownRequest].policy IN
           /\ Prop(policy, <<"success">>) = JBool(TRUE)
           /\ Prop(Prop(policy, <<"data">>), <<"violated">>) = JBool(FALSE)

\* C30: a displayed analysis result belongs to the file that is selected.
C30_ShownResultIsOfSelectedFile ==
    ResultShown(page) => page.shownFor = page.file

(***************************************************************************)
(* Specifications                                                          *)
(***************************************************************************)
Init ==
    /\ cachedPolicies = JNull
    /\ calls = [c \in Calls |-> NewCall]
    /\ extracted = {}
    /\ policyContent = JNull
    /\ checks = [k \in Checks |-> NewCheck]
    /\ requests = [r \in Requests |-> NewRequest]
    /\ analyses = [a \in Analyses |-> NewAnalysis]
    /\ checkers = [k \in Checkers |-> NoChecker]
    /\ page = NewPage

\* The live checker, used directly by its callers.
SpecLive == Init /\ [][LiveNext]_vars

\* The static checker, used directly by its callers.
SpecStatic == Init /\ [][StaticNext]_vars
SpecServer == Init /\ [][ServerNext]_vars
SpecSummarizer == Init /\ [][SummarizerNext]_vars

\* The /summarize handler with the progress its environment guarantees.
\* The handler's own steps run, and the local file system answers every
\* stat and read.  The two model calls (index.js line 171, part_000 line
\* 125) are awaited with no timeout, no abort signal and no deadline on the
\* request, so nothing obliges them to settle: they carry no fairness.
SpecServerFair ==
    /\ SpecServer
    /\ \A r \in Requests :
        /\ WF_vars(FileChecked(r))
        /\ WF_vars(PolicyFileResolve(r) \/ PolicyFileReject(r))

\* Checks made through the module functions, each on its own instance.
SpecProcess == Init /\ [][ProcessNext]_vars

\* The upload page in front of the /summarize handler.
SpecUi == Init /\ [][UiNext]_vars

=============================================================================
